---- MODULE Spec2Model ----
(***************************************************************************)
(* A model of the raycasting game of app/game: the grid world (world.ts)   *)
(* and the engine closure of app/game/page.tsx (input handlers, the        *)
(* per-frame render callback, enemy AI, collision and projectiles).        *)
(*                                                                         *)
(* Number representation.  The source computes in IEEE doubles; the model  *)
(* computes in integers:                                                   *)
(*   positions and lengths     1/100 of a cell   (Scale)                   *)
(*   distances from Math.hypot 1/1000 of a cell  (rounded down)            *)
(*   direction components      1/1000                                      *)
(*   angles                    1/10000 rad                                 *)
(*   patrol parameter t        1/1000000                                   *)
(*   timestamps                milliseconds                                *)
(* Divisions round to the nearest unit.  The two grid traversals compare   *)
(* their side distances as exact fractions (cross-multiplied), so a ray    *)
(* through a grid corner ties in the model exactly when it does            *)
(* geometrically.  Fields that only feed the drawing (animTime, the camera *)
(* plane, the flash timers of the overlays) are left out.                  *)
(***************************************************************************)
EXTENDS Integers, Sequences, FiniteSets, TLC

VARIABLES
    clock,           \* the latest reading of performance.now() / frame timestamp (ms)
    lastTime,        \* page.tsx: let lastTime
    keys,            \* keysRef.current
    pointerLocked,   \* page.tsx: let pointerLocked
    player,          \* page.tsx: const player  [pos, angle]; dir = Dir(angle)
    playerHealth,    \* page.tsx: let playerHealth
    playerDeadUntil, \* page.tsx: let playerDeadUntil
    enemyStates,     \* page.tsx: const enemyStates
    projectiles,     \* page.tsx: const projectiles
    shots,           \* history: number of projectiles created so far (gives each its id)
    applied,         \* history: per projectile id, the clock readings at which its impact logic ran
    animationFrame,  \* page.tsx: let animationFrame, the handle of the latest frame request
    host,            \* the browser's side: registered listeners, pending frame callbacks,
                     \* a pending pointer-lock request, messages shown to the user
    tickDt,          \* history: the dt of the latest tick (ms), 0 before the first
    probe            \* argument/result cell of the pure-function specifications

vars == << clock, lastTime, keys, pointerLocked, player, playerHealth,
           playerDeadUntil, enemyStates, projectiles, shots, applied,
           animationFrame, host, tickDt, probe >>

----------------------------------------------------------------------------
(* Bounds of the model *)

\* the number of shots fired in a behaviour
MaxShots == 3

\* the last clock reading of a behaviour (ms)
MaxTime == 4200

\* the same two bounds for the walking-only and the sampled-pose specifications
MoveMaxTime == 500

ShootMaxShots == 2

ShootMaxTime == 600

----------------------------------------------------------------------------
(* Arithmetic helpers *)

Scale == 100

Abs(a) == IF a < 0 THEN -a ELSE a

Sign(a) == IF a > 0 THEN 1 ELSE IF a < 0 THEN -1 ELSE 0

Min(a, b) == IF a < b THEN a ELSE b

Max(a, b) == IF a > b THEN a ELSE b

\* a / b rounded to the nearest integer (b > 0)
RoundDiv(a, b) == (2 * a + b) \div (2 * b)

\* Math.floor of a coordinate, as a cell index
Floor(c) == c \div Scale

RECURSIVE SqrtIter(_, _, _)
SqrtIter(n, lo, hi) ==
    IF lo >= hi THEN lo
    ELSE LET mid == (lo + hi + 1) \div 2
         IN  IF mid * mid <= n THEN SqrtIter(n, mid, hi) ELSE SqrtIter(n, lo, mid - 1)

ISqrt(n) == SqrtIter(n, 0, 46340)

\* Math.hypot(dx, dy) for dx, dy in 1/100 cell; the result is in 1/1000 cell
Hypot(dx, dy) == ISqrt(100 * (dx * dx + dy * dy))

----------------------------------------------------------------------------
(* world.ts *)

MAP == <<
    << 1,1,1,1,1,1,1,1,1,1,1,1 >>,
    << 1,1,0,0,0,0,0,0,0,0,0,1 >>,
    << 1,0,1,1,1,1,1,1,1,1,0,1 >>,
    << 1,0,1,0,0,0,0,0,1,1,0,1 >>,
    << 1,0,1,0,1,1,1,0,1,1,0,1 >>,
    << 1,1,0,0,0,0,0,0,0,0,0,1 >>,
    << 1,1,1,1,1,1,1,1,1,1,1,1 >> >>

mapWidth == Len(MAP[1])

mapHeight == Len(MAP)

SPAWN == [x |-> 1079, y |-> 579, angle |-> -23400]

ENEMIES == <<
    [base |-> [x |-> 270, y |-> 150], patrol |-> [x |-> 320, y |-> 0],  speed |-> 50, phase |-> 10],
    [base |-> [x |-> 940, y |-> 150], patrol |-> [x |-> -280, y |-> 0], speed |-> 42, phase |-> 60],
    [base |-> [x |-> 240, y |-> 550], patrol |-> [x |-> 440, y |-> 0],  speed |-> 47, phase |-> 120] >>

EnemyIds == 1..Len(ENEMIES)

isWall(x, y) ==
    IF x < 0 \/ y < 0 \/ x >= mapWidth \/ y >= mapHeight THEN TRUE
    ELSE MAP[y + 1][x + 1] # 0

\* sideDistX < sideDistY for side distances nx/ax and ny/ay of the ray length,
\* where a zero denominator stands for Infinity (1 / 0 in the source)
SideLess(nx, ax, ny, ay) ==
    IF ax = 0 THEN FALSE
    ELSE IF ay = 0 THEN TRUE
    ELSE nx * ay < ny * ax

\* travelled < distance - 0.05, for travelled = (tn / td) * sqrt(dd)
BeforeTarget(tn, td, dd) ==
    /\ td - tn > 0
    /\ (td - tn) * (td - tn) > (25 * td * td) \div dd

\* The while loop of isOccluded.  s = [mapX, mapY, nx, ny, tn, td]: the cell, the
\* numerators of sideDistX and sideDistY, and travelled = tn / td of the distance.
RECURSIVE OccludedWalk(_, _, _, _)
OccludedWalk(s, dx, dy, dd) ==
    IF ~(s.tn < s.td) THEN FALSE
    ELSE LET stepX == SideLess(s.nx, Abs(dx), s.ny, Abs(dy))
             n == IF stepX
                  THEN [s EXCEPT !.mapX = @ + (IF dx < 0 THEN -1 ELSE 1),
                                 !.tn = s.nx, !.td = Abs(dx), !.nx = @ + Scale]
                  ELSE [s EXCEPT !.mapY = @ + (IF dy < 0 THEN -1 ELSE 1),
                                 !.tn = s.ny, !.td = Abs(dy), !.ny = @ + Scale]
         IN  IF isWall(n.mapX, n.mapY) THEN BeforeTarget(n.tn, n.td, dd)
             ELSE OccludedWalk(n, dx, dy, dd)

isOccluded(from, to) ==
    LET dx == to.x - from.x
        dy == to.y - from.y
        dd == dx * dx + dy * dy
        mapX == Floor(from.x)
        mapY == Floor(from.y)
    IN  IF dd = 0 THEN FALSE
        ELSE OccludedWalk(
                [mapX |-> mapX, mapY |-> mapY,
                 nx |-> IF dx < 0 THEN from.x - mapX * Scale ELSE mapX * Scale + Scale - from.x,
                 ny |-> IF dy < 0 THEN from.y - mapY * Scale ELSE mapY * Scale + Scale - from.y,
                 tn |-> 0, td |-> 1],
                dx, dy, dd)

----------------------------------------------------------------------------
(* page.tsx: constants of the engine closure *)

enemyMaxHealth == 2

enemyRespawnMs == 3000

enemyHitStunMs == 220

maxProjectiles == 10

radius == 20

enemyRadius == 18

playerMaxHealth == 100

enemyContactDamage == 14

enemyContactRange == 520

enemyContactCooldownMs == 650

enemyDetectionRange == 5400

enemyForgetMs == 1700

\* Math.cos / Math.sin of an angle (1/10000 rad), in 1/1000; tabulated for the
\* headings the specifications below use
Dir(angle) ==
    CASE angle = -23400 -> [x |-> -696, y |-> -718]
      [] angle = -31400 -> [x |-> -1000, y |-> -2]
      [] angle = -31416 -> [x |-> -1000, y |-> 0]
      [] angle = -15708 -> [x |-> 0, y |-> -1000]
      [] angle = 0      -> [x |-> 1000, y |-> 0]
      [] angle = 15708  -> [x |-> 0, y |-> 1000]

Headings == { -23400, -31400, -31416, -15708, 0, 15708 }

\* page.tsx 33-51: enemyStates = ENEMIES.map(...)
InitEnemy(i) ==
    LET enemy == ENEMIES[i]
        phase == ((enemy.phase % 200) + 200) % 200
        patrolDir == IF phase <= 100 THEN 1 ELSE -1
        patrolT == (IF phase <= 100 THEN phase ELSE 200 - phase) * 10000
    IN  [pos |-> [x |-> enemy.base.x + RoundDiv(enemy.patrol.x * patrolT, 1000000),
                  y |-> enemy.base.y + RoundDiv(enemy.patrol.y * patrolT, 1000000)],
         patrolT |-> patrolT,
         patrolDir |-> patrolDir,
         chaseUntil |-> 0,
         hitStunUntil |-> 0,
         deadUntil |-> 0,
         lastDamageAt |-> -99999,
         health |-> enemyMaxHealth]

----------------------------------------------------------------------------
(* page.tsx: collision and movement *)

\* moveWithCollision without the two wall tests
moveThroughWalls(pos, next) == next

moveWithCollision(pos, next) ==
    LET x1 == IF ~isWall(Floor(next.x + Sign(next.x - pos.x) * radius), Floor(pos.y))
              THEN next.x ELSE pos.x
        y1 == IF ~isWall(Floor(x1), Floor(next.y + Sign(next.y - pos.y) * radius))
              THEN next.y ELSE pos.y
    IN  [x |-> x1, y |-> y1]

\* canOccupy testing the cell of the centre instead of the four corners
canOccupyCentre(x, y, r) == ~isWall(Floor(x), Floor(y))

canOccupy(x, y, r) ==
    /\ ~isWall(Floor(x - r), Floor(y - r))
    /\ ~isWall(Floor(x + r), Floor(y - r))
    /\ ~isWall(Floor(x - r), Floor(y + r))
    /\ ~isWall(Floor(x + r), Floor(y + r))

\* pos + velocity * dt, for a velocity of `spd` (1/10000 cell per second) along
\* (dx, dy) / dist, then the two canOccupy tests of moveEnemyWithCollision
moveEnemyWithCollision(pos, dx, dy, dist, spd, dt) ==
    LET nextX == pos.x + RoundDiv(dx * spd * dt, dist * 10000)
        nextY == pos.y + RoundDiv(dy * spd * dt, dist * 10000)
        x1 == IF canOccupy(nextX, pos.y, enemyRadius) THEN nextX ELSE pos.x
        y1 == IF canOccupy(x1, nextY, enemyRadius) THEN nextY ELSE pos.y
    IN  [x |-> x1, y |-> y1]

\* enemyKnockbackDistance * scale for the scales [1, 0.66, 0.33], in 1/10000 cell
knockbackSteps == << 4200, 2772, 1386 >>

\* a knockback that tries the full distance only
KnockbackTryOnce(k, pos, dx, dy, len) ==
    LET testX == pos.x + (IF len = 0 THEN 0 ELSE RoundDiv(dx * knockbackSteps[1], len * 10))
        testY == pos.y + (IF len = 0 THEN 0 ELSE RoundDiv(dy * knockbackSteps[1], len * 10))
    IN  IF canOccupy(testX, testY, enemyRadius) THEN [x |-> testX, y |-> testY] ELSE pos

RECURSIVE KnockbackTry(_, _, _, _, _)
KnockbackTry(k, pos, dx, dy, len) ==
    IF k > Len(knockbackSteps) THEN pos
    ELSE LET testX == pos.x + (IF len = 0 THEN 0 ELSE RoundDiv(dx * knockbackSteps[k], len * 10))
             testY == pos.y + (IF len = 0 THEN 0 ELSE RoundDiv(dy * knockbackSteps[k], len * 10))
         IN  IF canOccupy(testX, testY, enemyRadius) THEN [x |-> testX, y |-> testY]
             ELSE KnockbackTry(k + 1, pos, dx, dy, len)

\* the enemy's position after knockbackEnemy(enemyIndex, from)
knockbackEnemy(pos, from) ==
    KnockbackTry(1, pos, pos.x - from.x, pos.y - from.y, Hypot(pos.x - from.x, pos.y - from.y))

\* PushOut applying both axes of the push without the canOccupy tests
RECURSIVE PushOutUnchecked(_, _, _, _, _)
PushOutUnchecked(i, pos, angle, es, time) ==
    IF i > Len(es) THEN pos
    ELSE LET enemy == es[i]
             dx == pos.x - enemy.pos.x
             dy == pos.y - enemy.pos.y
             minDist == 400
             Separate(dist) ==
                 LET overlap == minDist - dist
                     pushX == pos.x + (IF dist > 0 THEN RoundDiv(dx * overlap, dist)
                                       ELSE RoundDiv(Dir(angle).x * 40, 1000))
                     pushY == pos.y + (IF dist > 0 THEN RoundDiv(dy * overlap, dist)
                                       ELSE RoundDiv(Dir(angle).y * 40, 1000))
                 IN  IF dist >= minDist THEN pos ELSE [x |-> pushX, y |-> pushY]
         IN  IF enemy.deadUntil > time
             THEN PushOutUnchecked(i + 1, pos, angle, es, time)
             ELSE PushOutUnchecked(i + 1, Separate(Hypot(dx, dy)), angle, es, time)

\* resolvePlayerEnemyCollision: the player's position after the loop over the
\* enemies from index i on
RECURSIVE PushOut(_, _, _, _, _)
PushOut(i, pos, angle, es, time) ==
    IF i > Len(es) THEN pos
    ELSE LET enemy == es[i]
             dx == pos.x - enemy.pos.x
             dy == pos.y - enemy.pos.y
             minDist == 400
             Separate(dist) ==
                 LET overlap == minDist - dist
                     pushX == pos.x + (IF dist > 0 THEN RoundDiv(dx * overlap, dist)
                                       ELSE RoundDiv(Dir(angle).x * 40, 1000))
                     pushY == pos.y + (IF dist > 0 THEN RoundDiv(dy * overlap, dist)
                                       ELSE RoundDiv(Dir(angle).y * 40, 1000))
                     x1 == IF canOccupy(pushX, pos.y, radius) THEN pushX ELSE pos.x
                     y1 == IF canOccupy(x1, pushY, radius) THEN pushY ELSE pos.y
                 IN  IF dist >= minDist THEN pos ELSE [x |-> x1, y |-> y1]
         IN  IF enemy.deadUntil > time
             THEN PushOut(i + 1, pos, angle, es, time)
             ELSE PushOut(i + 1, Separate(Hypot(dx, dy)), angle, es, time)

resolvePlayerEnemyCollision(pos, angle, es, time) == PushOut(1, pos, angle, es, time)

----------------------------------------------------------------------------
(* page.tsx: castRayToWall *)

\* the values of mapX, mapY, sideDistX and sideDistY before the loop (lines
\* 226-249, and 576-599 for a column of the wall pass)
RayStart(from, dir) ==
    LET mapX == Floor(from.x)
        mapY == Floor(from.y)
    IN  [mapX |-> mapX, mapY |-> mapY,
         nx |-> IF dir.x < 0 THEN from.x - mapX * Scale ELSE mapX * Scale + Scale - from.x,
         ny |-> IF dir.y < 0 THEN from.y - mapY * Scale ELSE mapY * Scale + Scale - from.y,
         side |-> 0, cells |-> << << mapX, mapY >> >>]

\* an iteration whose stepY is 0 for a ray that does not move along y
RayStepStalls(s, dir) ==
    LET n == IF SideLess(s.nx, Abs(dir.x), s.ny, Abs(dir.y))
             THEN [s EXCEPT !.nx = @ + Scale, !.mapX = @ + (IF dir.x < 0 THEN -1 ELSE 1), !.side = 0]
             ELSE [s EXCEPT !.ny = @ + Scale, !.mapY = @ + Sign(dir.y), !.side = 1]
    IN  [n EXCEPT !.cells = Append(@, << n.mapX, n.mapY >>)]

\* one iteration of the loop, up to its test of isWall (lines 254-262, and
\* 604-612): the step along x or along y
RayStep(s, dir) ==
    LET n == IF SideLess(s.nx, Abs(dir.x), s.ny, Abs(dir.y))
             THEN [s EXCEPT !.nx = @ + Scale, !.mapX = @ + (IF dir.x < 0 THEN -1 ELSE 1), !.side = 0]
             ELSE [s EXCEPT !.ny = @ + Scale, !.mapY = @ + (IF dir.y < 0 THEN -1 ELSE 1), !.side = 1]
    IN  [n EXCEPT !.cells = Append(@, << n.mapX, n.mapY >>)]

\* a walk that crosses a cell corner in one step when both side distances are equal
RECURSIVE RayWalkThroughCorners(_, _)
RayWalkThroughCorners(s, dir) ==
    LET n == IF dir.x # 0 /\ dir.y # 0 /\ s.nx * Abs(dir.y) = s.ny * Abs(dir.x)
             THEN [s EXCEPT !.nx = @ + Scale, !.mapX = @ + (IF dir.x < 0 THEN -1 ELSE 1),
                            !.ny = @ + Scale, !.mapY = @ + (IF dir.y < 0 THEN -1 ELSE 1), !.side = 1]
             ELSE IF SideLess(s.nx, Abs(dir.x), s.ny, Abs(dir.y))
             THEN [s EXCEPT !.nx = @ + Scale, !.mapX = @ + (IF dir.x < 0 THEN -1 ELSE 1), !.side = 0]
             ELSE [s EXCEPT !.ny = @ + Scale, !.mapY = @ + (IF dir.y < 0 THEN -1 ELSE 1), !.side = 1]
        m == [n EXCEPT !.cells = Append(@, << n.mapX, n.mapY >>)]
    IN  IF isWall(m.mapX, m.mapY) THEN m ELSE RayWalkThroughCorners(m, dir)

\* The DDA loop: s = [mapX, mapY, nx, ny, side, cells]; sideDistX = nx / |dir.x|
\* and sideDistY = ny / |dir.y| (in 1/100 cell over 1/1000); cells lists the
\* values (mapX, mapY) has taken
RECURSIVE RayWalk(_, _)
RayWalk(s, dir) ==
    LET m == RayStep(s, dir)
    IN  IF isWall(m.mapX, m.mapY) THEN m ELSE RayWalk(m, dir)

\* the result {x, y, dist} of castRayToWall, with mapX, mapY and side of the
\* cell hit and the cells walked; a / b is taken as (a * sign b) / |b|
castRayToWall(from, dir) ==
    LET mapX == Floor(from.x)
        mapY == Floor(from.y)
        Result(h, perpWallDist) ==
            [x |-> from.x + RoundDiv(dir.x * perpWallDist, 10000),
             y |-> from.y + RoundDiv(dir.y * perpWallDist, 10000),
             dist |-> perpWallDist,
             mapX |-> h.mapX, mapY |-> h.mapY, side |-> h.side, cells |-> h.cells]
        Measure(h) ==
            Result(h, IF h.side = 0
                      THEN RoundDiv((h.mapX * Scale - from.x + (IF dir.x < 0 THEN Scale ELSE 0))
                                        * Sign(dir.x) * 10000,
                                    Abs(dir.x))
                      ELSE RoundDiv((h.mapY * Scale - from.y + (IF dir.y < 0 THEN Scale ELSE 0))
                                        * Sign(dir.y) * 10000,
                                    Abs(dir.y)))
    IN  Measure(RayWalk(RayStart(from, dir), dir))

----------------------------------------------------------------------------
(* page.tsx: updateEnemies *)

\* UpdateOne whose patrol branch leaves chaseUntil as it was
UpdateOneKeepsChase(i, enemy, ppos, time, dt) ==
    LET enemyDef == ENEMIES[i]
        toPlayerX == ppos.x - enemy.pos.x
        toPlayerY == ppos.y - enemy.pos.y
        chaseSpeed == 13500 + enemyDef.speed * 35
        t1 == enemy.patrolT + enemy.patrolDir * enemyDef.speed * dt * 10
        patrolT == IF t1 > 1000000 THEN 1000000 ELSE IF t1 < 0 THEN 0 ELSE t1
        patrolDir == IF t1 > 1000000 THEN -1 ELSE IF t1 < 0 THEN 1 ELSE enemy.patrolDir
        dx == enemyDef.base.x + RoundDiv(enemyDef.patrol.x * patrolT, 1000000) - enemy.pos.x
        dy == enemyDef.base.y + RoundDiv(enemyDef.patrol.y * patrolT, 1000000) - enemy.pos.y
        patrolSpeed == 9500 + enemyDef.speed * 30
        Patrol(dist) ==
            [enemy EXCEPT !.patrolT = patrolT,
                          !.patrolDir = patrolDir,
                          !.pos = IF dist > 10
                                  THEN moveEnemyWithCollision(enemy.pos, dx, dy, dist, patrolSpeed, dt)
                                  ELSE enemy.pos]
        Act(distToPlayer, chaseUntil) ==
            IF enemy.hitStunUntil > time
            THEN [enemy EXCEPT !.chaseUntil = chaseUntil]
            ELSE IF chaseUntil > time /\ distToPlayer > 220
            THEN [enemy EXCEPT !.chaseUntil = chaseUntil,
                               !.pos = moveEnemyWithCollision(enemy.pos, toPlayerX, toPlayerY,
                                                              distToPlayer, chaseSpeed, dt)]
            ELSE Patrol(Hypot(dx, dy))
        See(distToPlayer) ==
            Act(distToPlayer,
                IF distToPlayer < enemyDetectionRange /\ ~isOccluded(enemy.pos, ppos)
                THEN time + enemyForgetMs ELSE enemy.chaseUntil)
    IN  See(Hypot(toPlayerX, toPlayerY))

\* the patrol step without the clamps of lines 307-313
patrolStepUnclamped(patrolT, patrolDir, speed, dt) ==
    [t |-> patrolT + patrolDir * speed * dt * 10, dir |-> patrolDir]

\* lines 306-313: patrolT advances by patrolDir * speed * dt and turns at the
\* ends of [0, 1]
patrolStep(patrolT, patrolDir, speed, dt) ==
    LET t1 == patrolT + patrolDir * speed * dt * 10
    IN  [t |-> IF t1 > 1000000 THEN 1000000 ELSE IF t1 < 0 THEN 0 ELSE t1,
         dir |-> IF t1 > 1000000 THEN -1 ELSE IF t1 < 0 THEN 1 ELSE patrolDir]

\* lines 284-331 for one living enemy: sight, hit-stun / chase / patrol, movement
UpdateOne(i, enemy, ppos, time, dt) ==
    LET enemyDef == ENEMIES[i]
        toPlayerX == ppos.x - enemy.pos.x
        toPlayerY == ppos.y - enemy.pos.y
        chaseSpeed == 13500 + enemyDef.speed * 35
        step == patrolStep(enemy.patrolT, enemy.patrolDir, enemyDef.speed, dt)
        patrolT == step.t
        patrolDir == step.dir
        dx == enemyDef.base.x + RoundDiv(enemyDef.patrol.x * patrolT, 1000000) - enemy.pos.x
        dy == enemyDef.base.y + RoundDiv(enemyDef.patrol.y * patrolT, 1000000) - enemy.pos.y
        patrolSpeed == 9500 + enemyDef.speed * 30
        Patrol(dist) ==
            [enemy EXCEPT !.chaseUntil = 0,
                          !.patrolT = patrolT,
                          !.patrolDir = patrolDir,
                          !.pos = IF dist > 10
                                  THEN moveEnemyWithCollision(enemy.pos, dx, dy, dist, patrolSpeed, dt)
                                  ELSE enemy.pos]
        Act(distToPlayer, chaseUntil) ==
            IF enemy.hitStunUntil > time
            THEN [enemy EXCEPT !.chaseUntil = chaseUntil]
            ELSE IF chaseUntil > time /\ distToPlayer > 220
            THEN [enemy EXCEPT !.chaseUntil = chaseUntil,
                               !.pos = moveEnemyWithCollision(enemy.pos, toPlayerX, toPlayerY,
                                                              distToPlayer, chaseSpeed, dt)]
            ELSE Patrol(Hypot(dx, dy))
        See(distToPlayer) ==
            Act(distToPlayer,
                IF distToPlayer < enemyDetectionRange /\ ~isOccluded(enemy.pos, ppos)
                THEN time + enemyForgetMs ELSE enemy.chaseUntil)
    IN  See(Hypot(toPlayerX, toPlayerY))

\* UpdateFrom whose contact damage does not start the death timer
RECURSIVE UpdateFromNoDeath(_, _, _, _, _)
UpdateFromNoDeath(i, w, ppos, time, dt) ==
    IF i > Len(ENEMIES) THEN w
    ELSE IF w.es[i].deadUntil > time THEN UpdateFromNoDeath(i + 1, w, ppos, time, dt)
    ELSE LET Damage(e1, contact) ==
                 LET health == IF contact THEN Max(0, w.health - enemyContactDamage) ELSE w.health
                     e2 == IF contact THEN [e1 EXCEPT !.lastDamageAt = time] ELSE e1
                     w2 == [es |-> [w.es EXCEPT ![i] = e2], health |-> health, deadUntil |-> w.deadUntil]
                 IN  UpdateFromNoDeath(i + 1, w2, ppos, time, dt)
             Touch(e1) ==
                 Damage(e1, /\ w.deadUntil <= time
                            /\ Hypot(ppos.x - e1.pos.x, ppos.y - e1.pos.y) < enemyContactRange
                            /\ ~isOccluded(e1.pos, ppos)
                            /\ time - e1.lastDamageAt >= enemyContactCooldownMs)
         IN  Touch(UpdateOne(i, w.es[i], ppos, time, dt))

\* UpdateFrom applying contact damage without the cooldown test
RECURSIVE UpdateFromNoCooldown(_, _, _, _, _)
UpdateFromNoCooldown(i, w, ppos, time, dt) ==
    IF i > Len(ENEMIES) THEN w
    ELSE IF w.es[i].deadUntil > time THEN UpdateFromNoCooldown(i + 1, w, ppos, time, dt)
    ELSE LET Damage(e1, contact) ==
                 LET health == IF contact THEN Max(0, w.health - enemyContactDamage) ELSE w.health
                     e2 == IF contact THEN [e1 EXCEPT !.lastDamageAt = time] ELSE e1
                     w2 == [es |-> [w.es EXCEPT ![i] = e2], health |-> health, deadUntil |-> w.deadUntil]
                 IN  IF contact /\ health <= 0
                     THEN [w2 EXCEPT !.deadUntil = time + 1300]
                     ELSE UpdateFromNoCooldown(i + 1, w2, ppos, time, dt)
             Touch(e1) ==
                 Damage(e1, /\ w.deadUntil <= time
                            /\ Hypot(ppos.x - e1.pos.x, ppos.y - e1.pos.y) < enemyContactRange
                            /\ ~isOccluded(e1.pos, ppos))
         IN  Touch(UpdateOne(i, w.es[i], ppos, time, dt))

\* the for loop of updateEnemies from index i on; w = [es, health, deadUntil]
RECURSIVE UpdateFrom(_, _, _, _, _)
UpdateFrom(i, w, ppos, time, dt) ==
    IF i > Len(ENEMIES) THEN w
    ELSE IF w.es[i].deadUntil > time THEN UpdateFrom(i + 1, w, ppos, time, dt)
    ELSE LET Damage(e1, contact) ==
                 LET health == IF contact THEN Max(0, w.health - enemyContactDamage) ELSE w.health
                     e2 == IF contact THEN [e1 EXCEPT !.lastDamageAt = time] ELSE e1
                     w2 == [es |-> [w.es EXCEPT ![i] = e2], health |-> health, deadUntil |-> w.deadUntil]
                 IN  IF contact /\ health <= 0
                     THEN [w2 EXCEPT !.deadUntil = time + 1300]
                     ELSE UpdateFrom(i + 1, w2, ppos, time, dt)
             Touch(e1) ==
                 Damage(e1, /\ w.deadUntil <= time
                            /\ Hypot(ppos.x - e1.pos.x, ppos.y - e1.pos.y) < enemyContactRange
                            /\ ~isOccluded(e1.pos, ppos)
                            /\ time - e1.lastDamageAt >= enemyContactCooldownMs)
         IN  Touch(UpdateOne(i, w.es[i], ppos, time, dt))

updateEnemies(es, health, deadUntil, ppos, time, dt) ==
    UpdateFrom(1, [es |-> es, health |-> health, deadUntil |-> deadUntil], ppos, time, dt)

----------------------------------------------------------------------------
(* page.tsx: tryShoot *)

\* Qualifies without the line-of-sight test
QualifiesIgnoringWalls(i, es, ppos, dir, time) ==
    LET dx == es[i].pos.x - ppos.x
        dy == es[i].pos.y - ppos.y
        dist == Hypot(dx, dy)
    IN  /\ ~(es[i].deadUntil > time)
        /\ ~(dx = 0 /\ dy = 0)
        /\ ~(dx * dir.x + dy * dir.y < 98 * dist)
        /\ ~(Abs(dx * dir.y - dy * dir.x) > 35000)

\* lines 361-374: enemy i passes every `continue` of the selection loop
Qualifies(i, es, ppos, dir, time) ==
    LET dx == es[i].pos.x - ppos.x
        dy == es[i].pos.y - ppos.y
        dist == Hypot(dx, dy)
    IN  /\ ~(es[i].deadUntil > time)
        /\ ~(dx = 0 /\ dy = 0)
        /\ ~(dx * dir.x + dy * dir.y < 98 * dist)
        /\ ~(Abs(dx * dir.y - dy * dir.x) > 35000)
        /\ ~isOccluded(ppos, es[i].pos)

\* BestFrom letting a later enemy at the same distance replace the earlier one
RECURSIVE BestFromLastOnTies(_, _, _, _, _, _)
BestFromLastOnTies(i, best, es, ppos, dir, time) ==
    IF i > Len(ENEMIES) THEN best
    ELSE LET Keep(dist) ==
                 IF Qualifies(i, es, ppos, dir, time) /\ (best.index = 0 \/ dist <= best.distance)
                 THEN [index |-> i, distance |-> dist]
                 ELSE best
         IN  BestFromLastOnTies(i + 1, Keep(Hypot(es[i].pos.x - ppos.x, es[i].pos.y - ppos.y)),
                                es, ppos, dir, time)

\* the selection loop from index i on; best = [index, distance], index 0 for
\* bestIndex = -1 / bestDistance = Infinity
RECURSIVE BestFrom(_, _, _, _, _, _)
BestFrom(i, best, es, ppos, dir, time) ==
    IF i > Len(ENEMIES) THEN best
    ELSE LET Keep(dist) ==
                 IF Qualifies(i, es, ppos, dir, time) /\ (best.index = 0 \/ dist < best.distance)
                 THEN [index |-> i, distance |-> dist]
                 ELSE best
         IN  BestFrom(i + 1, Keep(Hypot(es[i].pos.x - ppos.x, es[i].pos.y - ppos.y)),
                      es, ppos, dir, time)

\* dist / projectileSpeed * 1000, in ms (projectileSpeed = 7.5)
TravelMs(dist) == RoundDiv(2 * dist, 15)

\* the record tryShoot pushes; hitEnemyIndex 0 stands for null
NewProjectile(es, ppos, dir, time, id) ==
    LET Record(hitEnemyIndex, hitPoint, hitDist) ==
            [start |-> ppos,
             end |-> hitPoint,
             startTime |-> time,
             duration |-> Max(120, TravelMs(Hypot(hitPoint.x - ppos.x, hitPoint.y - ppos.y))),
             hitAt |-> time + TravelMs(hitDist),
             hitEnemyIndex |-> hitEnemyIndex,
             resolved |-> FALSE,
             flashUntil |-> 0,
             id |-> id]
        Decide(best, wallHit, enemyHit) ==
            IF enemyHit
            THEN Record(best.index, es[best.index].pos, best.distance)
            ELSE Record(0, [x |-> wallHit.x, y |-> wallHit.y], wallHit.dist)
        Compare(best, wallHit) ==
            Decide(best, wallHit, /\ best.index # 0
                                  /\ best.distance < wallHit.dist
                                  /\ es[best.index].deadUntil <= time)
    IN  Compare(BestFrom(1, [index |-> 0, distance |-> 0], es, ppos, dir, time),
                castRayToWall(ppos, dir))

\* tryShoot taking the newest projectile out (pop) when over capacity
tryShootDropsNewest(ps, es, ppos, dir, time, id) ==
    LET pushed == Append(ps, NewProjectile(es, ppos, dir, time, id))
    IN  IF Len(pushed) > maxProjectiles THEN SubSeq(pushed, 1, maxProjectiles) ELSE pushed

\* projectiles after tryShoot: push, then shift when over capacity
tryShoot(ps, es, ppos, dir, time, id) ==
    LET pushed == Append(ps, NewProjectile(es, ppos, dir, time, id))
    IN  IF Len(pushed) > maxProjectiles THEN Tail(pushed) ELSE pushed

----------------------------------------------------------------------------
(* page.tsx: render(time) *)

\* lines 445-474: the displacement the held keys ask for, moveWithCollision and
\* the push-out that follows it
MovePlayer(pos, angle, ks, es, time, dt) ==
    LET dir == Dir(angle)
        moveX == (IF "w" \in ks THEN dir.x ELSE 0) - (IF "s" \in ks THEN dir.x ELSE 0)
                 + (IF "a" \in ks THEN dir.y ELSE 0) - (IF "d" \in ks THEN dir.y ELSE 0)
        moveY == (IF "w" \in ks THEN dir.y ELSE 0) - (IF "s" \in ks THEN dir.y ELSE 0)
                 - (IF "a" \in ks THEN dir.x ELSE 0) + (IF "d" \in ks THEN dir.x ELSE 0)
        len == ISqrt(moveX * moveX + moveY * moveY)
        next == [x |-> pos.x + RoundDiv(moveX * 26 * dt, len * 100),
                 y |-> pos.y + RoundDiv(moveY * 26 * dt, len * 100)]
    IN  IF moveX # 0 \/ moveY # 0
        THEN resolvePlayerEnemyCollision(moveWithCollision(pos, next), angle, es, time)
        ELSE pos

\* lines 476-479: rot = -+ rotSpeed * dt (rotSpeed = 1.8), applied by rotatePlayer
RotateByKeys(angle, ks, dt) ==
    angle - (IF "arrowleft" \in ks THEN 18 * dt ELSE 0)
          + (IF "arrowright" \in ks THEN 18 * dt ELSE 0)

\* ImpactDue without the test of the scheduled impact time
ImpactDueEarly(projectile, now) == ~projectile.resolved

\* line 762: the impact of a projectile is due
ImpactDue(projectile, now) == ~projectile.resolved /\ now >= projectile.hitAt

\* HitEnemy with the sign of the damage wrong
HitEnemyAddsHealth(enemy, from, now) ==
    [enemy EXCEPT !.health = Max(0, enemy.health + 1),
                  !.hitStunUntil = now + enemyHitStunMs,
                  !.chaseUntil = now + enemyForgetMs,
                  !.pos = knockbackEnemy(enemy.pos, from)]

\* HitEnemy without the hit-stun
HitEnemyNoStun(enemy, from, now) ==
    [enemy EXCEPT !.health = Max(0, enemy.health - 1),
                  !.chaseUntil = now + enemyForgetMs,
                  !.pos = knockbackEnemy(enemy.pos, from)]

\* HitEnemy leaving the chase timer as it was
HitEnemyNoChase(enemy, from, now) ==
    [enemy EXCEPT !.health = Max(0, enemy.health - 1),
                  !.hitStunUntil = now + enemyHitStunMs,
                  !.pos = knockbackEnemy(enemy.pos, from)]

\* HitEnemy taking two points of health
HitEnemyLethal(enemy, from, now) ==
    [enemy EXCEPT !.health = Max(0, enemy.health - 2),
                  !.hitStunUntil = now + enemyHitStunMs,
                  !.chaseUntil = now + enemyForgetMs,
                  !.pos = knockbackEnemy(enemy.pos, from)]

\* lines 769-772: a hit on a living enemy by a projectile fired from `from`
HitEnemy(enemy, from, now) ==
    [enemy EXCEPT !.health = Max(0, enemy.health - 1),
                  !.hitStunUntil = now + enemyHitStunMs,
                  !.chaseUntil = now + enemyForgetMs,
                  !.pos = knockbackEnemy(enemy.pos, from)]

\* KillEnemy leaving the chase timer the hit has just armed
KillEnemyKeepsChase(enemy, enemyIndex, now) ==
    [enemy EXCEPT !.deadUntil = now + enemyRespawnMs,
                  !.hitStunUntil = 0,
                  !.patrolT = 0,
                  !.patrolDir = 1,
                  !.health = enemyMaxHealth,
                  !.pos = ENEMIES[enemyIndex].base]

\* KillEnemy leaving the enemy where the knockback has put it
KillEnemyKeepsPos(enemy, enemyIndex, now) ==
    [enemy EXCEPT !.deadUntil = now + enemyRespawnMs,
                  !.chaseUntil = 0,
                  !.hitStunUntil = 0,
                  !.patrolT = 0,
                  !.patrolDir = 1,
                  !.health = enemyMaxHealth]

\* KillEnemy without the reset of the health
KillEnemyKeepsHealth(enemy, enemyIndex, now) ==
    [enemy EXCEPT !.deadUntil = now + enemyRespawnMs,
                  !.chaseUntil = 0,
                  !.hitStunUntil = 0,
                  !.patrolT = 0,
                  !.patrolDir = 1,
                  !.pos = ENEMIES[enemyIndex].base]

\* lines 774-780: the death transition of enemy enemyIndex
KillEnemy(enemy, enemyIndex, now) ==
    [enemy EXCEPT !.deadUntil = now + enemyRespawnMs,
                  !.chaseUntil = 0,
                  !.hitStunUntil = 0,
                  !.patrolT = 0,
                  !.patrolDir = 1,
                  !.health = enemyMaxHealth,
                  !.pos = ENEMIES[enemyIndex].base]

\* lines 763-783 for the projectile at index i; w = [ps, es, ap]
\* the impact applied without the test of line 765
ImpactHitsDead(i, w, now) ==
    LET projectile == w.ps[i]
        enemyIndex == projectile.hitEnemyIndex
        Land(hit) == IF hit.health <= 0 THEN KillEnemy(hit, enemyIndex, now) ELSE hit
    IN  [ps |-> [w.ps EXCEPT ![i] = [projectile EXCEPT !.resolved = TRUE, !.flashUntil = now + 140]],
         es |-> IF enemyIndex # 0
                THEN [w.es EXCEPT ![enemyIndex] = Land(HitEnemy(w.es[enemyIndex], projectile.start, now))]
                ELSE w.es,
         ap |-> [w.ap EXCEPT ![projectile.id] = Append(@, now)]]

Impact(i, w, now) ==
    LET projectile == w.ps[i]
        enemyIndex == projectile.hitEnemyIndex
        Land(hit) == IF hit.health <= 0 THEN KillEnemy(hit, enemyIndex, now) ELSE hit
    IN  [ps |-> [w.ps EXCEPT ![i] = [projectile EXCEPT !.resolved = TRUE, !.flashUntil = now + 140]],
         es |-> IF enemyIndex # 0 /\ w.es[enemyIndex].deadUntil <= now
                THEN [w.es EXCEPT ![enemyIndex] = Land(HitEnemy(w.es[enemyIndex], projectile.start, now))]
                ELSE w.es,
         ap |-> [w.ap EXCEPT ![projectile.id] = Append(@, now)]]

RemoveAt(seq, i) == SubSeq(seq, 1, i - 1) \o SubSeq(seq, i + 1, Len(seq))

\* lines 736-806: the loop over the projectiles from index i down to 1
RECURSIVE ProjectileLoop(_, _, _)
ProjectileLoop(i, w, now) ==
    IF i < 1 THEN w
    ELSE LET projectile == w.ps[i]
         IN  IF now - projectile.startTime >= projectile.duration /\ now > projectile.hitAt + 200
             THEN ProjectileLoop(i - 1, [w EXCEPT !.ps = RemoveAt(w.ps, i)], now)
             ELSE IF ImpactDue(projectile, now)
             THEN ProjectileLoop(i - 1, Impact(i, w, now), now)
             ELSE ProjectileLoop(i - 1, w, now)

\* the event types of the six addEventListener calls
Listeners == { "resize", "keydown", "keyup", "pointerdown", "pointerlockchange", "pointermove" }

\* the handle requestAnimationFrame returns for a request made at timestamp
\* `time`: handles are unique and increasing, and at most one request is made
\* per timestamp
FrameHandle(time) == time + 1

\* a step taken as the whole difference of the timestamps
FrameDtUnclamped(last, time) == IF last # 0 THEN time - last ELSE 16

\* line 442: dt (ms) of the tick at timestamp `time` when lastTime is `last`
FrameDt(last, time) == IF last # 0 THEN Min(50, time - last) ELSE 16

\* the keys read whether the player is dead or not
mayActAlways(deadUntil, time) == TRUE

\* line 448: the keys move and turn the player only if playerDeadUntil <= time
mayAct(deadUntil, time) == deadUntil <= time

\* the test of line 482 with the comparison of the timestamps inverted
respawnDueWhileDead(deadUntil, time) == deadUntil > 0 /\ time < deadUntil

\* line 482: playerDeadUntil > 0 && time >= playerDeadUntil
respawnDue(deadUntil, time) == deadUntil > 0 /\ time >= deadUntil

\* the frame callback the browser runs under `handle`, called with timestamp
\* `time`; performance.now() reads `now`
render(handle, time, now) ==
    LET dt == FrameDt(lastTime, time)
        alive == mayAct(playerDeadUntil, time)
        reset == respawnDue(playerDeadUntil, time)
        \* lines 736-806, then what the frame leaves behind
        Projectiles(pos, angle, u, w) ==
            /\ lastTime' = time
            /\ clock' = now
            /\ player' = [pos |-> pos, angle |-> angle]
            /\ playerHealth' = u.health
            /\ playerDeadUntil' = u.deadUntil
            /\ enemyStates' = w.es
            /\ projectiles' = w.ps
            /\ applied' = w.ap
            /\ tickDt' = dt
            \* line 835: the callback asks for the next frame
            /\ animationFrame' = FrameHandle(time)
            /\ host' = [host EXCEPT !.pendingFrames = (@ \ {handle}) \cup {FrameHandle(time)}]
            /\ UNCHANGED << keys, pointerLocked, shots, probe >>
        \* lines 485-488 for a player who is not dead: the enemies have been updated
        Update(pos, angle, u) ==
            Projectiles(resolvePlayerEnemyCollision(pos, angle, u.es, time), angle, u,
                        ProjectileLoop(Len(projectiles),
                                       [ps |-> projectiles, es |-> u.es, ap |-> applied], now))
        \* lines 485-488 for a dead player
        NoUpdate(pos, angle, u) ==
            Projectiles(pos, angle, u,
                        ProjectileLoop(Len(projectiles),
                                       [ps |-> projectiles, es |-> u.es, ap |-> applied], now))
        \* lines 482-484: resetPlayer once playerDeadUntil has passed
        Respawn(pos, angle) ==
            IF reset
            THEN Update([x |-> SPAWN.x, y |-> SPAWN.y], SPAWN.angle,
                        updateEnemies(enemyStates, playerMaxHealth, 0,
                                      [x |-> SPAWN.x, y |-> SPAWN.y], time, dt))
            ELSE IF playerDeadUntil <= time
            THEN Update(pos, angle,
                        updateEnemies(enemyStates, playerHealth, playerDeadUntil, pos, time, dt))
            ELSE NoUpdate(pos, angle,
                          [es |-> enemyStates, health |-> playerHealth, deadUntil |-> playerDeadUntil])
    IN  Respawn(IF alive THEN MovePlayer(player.pos, player.angle, keys, enemyStates, time, dt)
                ELSE player.pos,
                IF alive THEN RotateByKeys(player.angle, keys, dt) ELSE player.angle)

----------------------------------------------------------------------------
(* page.tsx: input handlers *)

handleKeyDown(k) ==
    /\ keys' = keys \cup {k}
    /\ UNCHANGED << clock, lastTime, pointerLocked, player, playerHealth, playerDeadUntil,
                    enemyStates, projectiles, shots, applied, animationFrame, host, tickDt,
                    probe >>

handleKeyUp(k) ==
    /\ keys' = keys \ {k}
    /\ UNCHANGED << clock, lastTime, pointerLocked, player, playerHealth, playerDeadUntil,
                    enemyStates, projectiles, shots, applied, animationFrame, host, tickDt,
                    probe >>

\* handlePointerDown without the test of playerDeadUntil
handlePointerDownWhileDead(now) ==
    /\ clock' = now
    /\ IF pointerLocked
       THEN /\ projectiles' = tryShoot(projectiles, enemyStates, player.pos, Dir(player.angle),
                                       now, shots + 1)
            /\ shots' = shots + 1
       ELSE UNCHANGED << projectiles, shots >>
    /\ host' = IF pointerLocked THEN host ELSE [host EXCEPT !.captureRequested = TRUE]
    /\ UNCHANGED << lastTime, keys, pointerLocked, player, playerHealth, playerDeadUntil,
                    enemyStates, applied, animationFrame, tickDt, probe >>

\* called while performance.now() reads `now`
handlePointerDown(now) ==
    /\ clock' = now
    /\ IF pointerLocked /\ ~(playerDeadUntil > now)
       THEN /\ projectiles' = tryShoot(projectiles, enemyStates, player.pos, Dir(player.angle),
                                       now, shots + 1)
            /\ shots' = shots + 1
       ELSE UNCHANGED << projectiles, shots >>
    \* line 413: canvas.requestPointerLock?.()
    /\ host' = IF pointerLocked THEN host ELSE [host EXCEPT !.captureRequested = TRUE]
    /\ UNCHANGED << lastTime, keys, pointerLocked, player, playerHealth, playerDeadUntil,
                    enemyStates, applied, animationFrame, tickDt, probe >>

\* locked = (document.pointerLockElement === canvas) at the time of the event
handlePointerLockChange(locked) ==
    /\ pointerLocked' = locked
    \* the event settles the request the browser was holding, if any
    /\ host' = [host EXCEPT !.captureRequested = FALSE]
    /\ UNCHANGED << clock, lastTime, keys, player, playerHealth, playerDeadUntil,
                    enemyStates, projectiles, shots, applied, animationFrame, tickDt, probe >>

\* rot = movementX * mouseSensitivity (0.0025 rad), applied by rotatePlayer
\* handlePointerMove without the test of pointerLocked
handlePointerMoveUncaptured(movementX) ==
    /\ player' = [player EXCEPT !.angle = @ + 25 * movementX]
    /\ UNCHANGED << clock, lastTime, keys, pointerLocked, playerHealth, playerDeadUntil,
                    enemyStates, projectiles, shots, applied, animationFrame, host, tickDt,
                    probe >>

handlePointerMove(movementX) ==
    /\ player' = IF pointerLocked
                 THEN [player EXCEPT !.angle = @ + 25 * movementX]
                 ELSE player
    /\ UNCHANGED << clock, lastTime, keys, pointerLocked, playerHealth, playerDeadUntil,
                    enemyStates, projectiles, shots, applied, animationFrame, host, tickDt,
                    probe >>

----------------------------------------------------------------------------
(* The engine from construction *)

NoProbe == [op |-> "none"]

\* the browser's side once the effect has run to its end: lines 433-439 have
\* registered the listeners and line 838 has asked for the first frame
Attached ==
    [context |-> TRUE, listeners |-> Listeners, pendingFrames |-> {FrameHandle(0)},
     captureRequested |-> FALSE, reports |-> 0]

\* the state the effect of page.tsx 15-97 builds
Init ==
    /\ clock = 0
    /\ lastTime = 0
    /\ keys = {}
    /\ pointerLocked = FALSE
    /\ player = [pos |-> [x |-> SPAWN.x, y |-> SPAWN.y], angle |-> SPAWN.angle]
    /\ playerHealth = playerMaxHealth
    /\ playerDeadUntil = 0
    /\ enemyStates = [i \in EnemyIds |-> InitEnemy(i)]
    /\ projectiles = << >>
    /\ shots = 0
    /\ applied = [id \in 1..MaxShots |-> << >>]
    /\ animationFrame = FrameHandle(0)
    /\ host = Attached
    /\ tickDt = 0
    /\ probe = NoProbe

\* gaps between two frame callbacks (ms), and what performance.now() has
\* advanced by when the projectile pass of a frame reads it
FrameGaps == { 400, 3000 }

FrameLags == { 0 }

\* movementX of the pointer-move events
MouseMoves == { -320, 320 }

\* the browser delivers an event of type `type` to the engine's listener
Listening(type) == type \in host.listeners

Frame ==
    \E handle \in host.pendingFrames, gap \in FrameGaps, lag \in FrameLags :
        /\ clock + gap + lag <= MaxTime
        /\ render(handle, clock + gap, clock + gap + lag)

PointerDown ==
    /\ Listening("pointerdown")
    /\ (pointerLocked /\ ~(playerDeadUntil > clock)) => shots < MaxShots
    /\ handlePointerDown(clock)

PointerLockChange ==
    \E locked \in BOOLEAN :
        /\ Listening("pointerlockchange")
        /\ locked # pointerLocked
        /\ handlePointerLockChange(locked)

PointerMove ==
    \E movementX \in MouseMoves :
        /\ Listening("pointermove")
        /\ pointerLocked => (player.angle + 25 * movementX) \in Headings
        /\ handlePointerMove(movementX)

Next ==
    \/ Frame
    \/ PointerDown
    \/ PointerLockChange
    \/ PointerMove

Spec == Init /\ [][Next]_vars

----------------------------------------------------------------------------
(* Walking only: the engine from construction, driven by the movement keys *)

MoveKeys == { "w", "d" }

MoveGaps == { 50 }

KeyDown == \E k \in MoveKeys : Listening("keydown") /\ handleKeyDown(k)

KeyUp == \E k \in MoveKeys : Listening("keyup") /\ handleKeyUp(k)

FrameMove ==
    \E handle \in host.pendingFrames, gap \in MoveGaps :
        /\ clock + gap <= MoveMaxTime
        /\ render(handle, clock + gap, clock + gap)

NextMove ==
    \/ KeyDown
    \/ KeyUp
    \/ FrameMove

SpecMove == Init /\ [][NextMove]_vars

----------------------------------------------------------------------------
(* isOccluded as a function of its two arguments *)

\* the centres of the passable cells
ProbePoints ==
    { [x |-> cx * Scale + Scale \div 2, y |-> cy * Scale + Scale \div 2] :
        <<cx, cy>> \in { c \in (0..(mapWidth - 1)) \X (0..(mapHeight - 1)) : ~isWall(c[1], c[2]) } }

InitOcc ==
    /\ clock = 0
    /\ lastTime = 0
    /\ keys = {}
    /\ pointerLocked = FALSE
    /\ player = [pos |-> [x |-> SPAWN.x, y |-> SPAWN.y], angle |-> SPAWN.angle]
    /\ playerHealth = playerMaxHealth
    /\ playerDeadUntil = 0
    /\ enemyStates = [i \in EnemyIds |-> InitEnemy(i)]
    /\ projectiles = << >>
    /\ shots = 0
    /\ applied = [id \in 1..MaxShots |-> << >>]
    /\ animationFrame = FrameHandle(0)
    /\ host = Attached
    /\ tickDt = 0
    /\ \E a \in ProbePoints, b \in ProbePoints :
          probe = [op |-> "isOccluded", from |-> a, to |-> b, done |-> FALSE,
                   forth |-> FALSE, back |-> FALSE]

\* evaluates isOccluded(from, to) and isOccluded(to, from)
ProbeOccluded ==
    /\ probe.op = "isOccluded"
    /\ ~probe.done
    /\ probe' = [probe EXCEPT !.done = TRUE,
                              !.forth = isOccluded(probe.from, probe.to),
                              !.back = isOccluded(probe.to, probe.from)]
    /\ UNCHANGED << clock, lastTime, keys, pointerLocked, player, playerHealth,
                    playerDeadUntil, enemyStates, projectiles, shots, applied,
                    animationFrame, host, tickDt >>

NextOcc == ProbeOccluded

SpecOcc == InitOcc /\ [][NextOcc]_vars

----------------------------------------------------------------------------
(* Shooting from sampled poses: the pointer is captured, the player stands at  *)
(* one of PlayerSpots facing one of AimHeadings, enemies 1 and 2 stand at one *)
(* of their spots (positions canOccupy accepts), enemy 1 with any health it  *)
(* can have while alive, enemy 3 where it is built                           *)

PlayerSpots ==
    { [x |-> 670, y |-> 150], [x |-> 1015, y |-> 450], [x |-> 998, y |-> 540],
      [x |-> SPAWN.x, y |-> SPAWN.y] }

AimHeadings == { -31416, -15708, SPAWN.angle }

EnemySpots ==
    << { [x |-> 270, y |-> 150], [x |-> 270, y |-> 130], [x |-> 982, y |-> 150], [x |-> 1028, y |-> 300],
         [x |-> 1018, y |-> 197] },
       { [x |-> 772, y |-> 150], [x |-> 270, y |-> 170], [x |-> 470, y |-> 150], [x |-> 982, y |-> 150] },
       { InitEnemy(3).pos } >>

ShootGaps == { 300 }

InitShoot ==
    /\ clock = 0
    /\ lastTime = 0
    /\ keys = {}
    /\ pointerLocked = TRUE
    /\ \E pos \in PlayerSpots, angle \in AimHeadings : player = [pos |-> pos, angle |-> angle]
    /\ playerHealth = playerMaxHealth
    /\ playerDeadUntil = 0
    /\ \E p1 \in EnemySpots[1], p2 \in EnemySpots[2], p3 \in EnemySpots[3], h1 \in 1..enemyMaxHealth :
          enemyStates = << [InitEnemy(1) EXCEPT !.pos = p1, !.health = h1],
                           [InitEnemy(2) EXCEPT !.pos = p2],
                           [InitEnemy(3) EXCEPT !.pos = p3] >>
    /\ projectiles = << >>
    /\ shots = 0
    /\ applied = [id \in 1..MaxShots |-> << >>]
    /\ animationFrame = FrameHandle(0)
    /\ host = Attached
    /\ tickDt = 0
    /\ probe = NoProbe

PointerDownShoot ==
    /\ Listening("pointerdown")
    /\ shots < ShootMaxShots
    /\ handlePointerDown(clock)

FrameShoot ==
    \E handle \in host.pendingFrames, gap \in ShootGaps :
        /\ clock + gap <= ShootMaxTime
        /\ render(handle, clock + gap, clock + gap)

NextShoot ==
    \/ PointerDownShoot
    \/ FrameShoot

SpecShoot == InitShoot /\ [][NextShoot]_vars

----------------------------------------------------------------------------
(* Close combat in the south corridor: the pointer is captured, the player    *)
(* stands east of enemy 3 at one of ContactSpots and faces it, the enemies    *)
(* are where they are built                                                   *)

ContactMaxShots == 1

ContactMaxTime == 400

ContactSpots == { [x |-> 658, y |-> 550], [x |-> 670, y |-> 550], [x |-> 640, y |-> 550] }

ContactGaps == { 50 }

InitContact ==
    /\ clock = 0
    /\ lastTime = 0
    /\ keys = {}
    /\ pointerLocked = TRUE
    /\ \E pos \in ContactSpots : player = [pos |-> pos, angle |-> -31416]
    /\ playerHealth = playerMaxHealth
    /\ playerDeadUntil = 0
    /\ enemyStates = [i \in EnemyIds |-> InitEnemy(i)]
    /\ projectiles = << >>
    /\ shots = 0
    /\ applied = [id \in 1..ContactMaxShots |-> << >>]
    /\ animationFrame = FrameHandle(0)
    /\ host = Attached
    /\ tickDt = 0
    /\ probe = NoProbe

KeyDownContact == Listening("keydown") /\ "w" \notin keys /\ handleKeyDown("w")

KeyUpContact == Listening("keyup") /\ "w" \in keys /\ handleKeyUp("w")

PointerDownContact ==
    /\ Listening("pointerdown")
    /\ shots < ContactMaxShots
    /\ handlePointerDown(clock)

FrameContact ==
    \E handle \in host.pendingFrames, gap \in ContactGaps :
        /\ clock + gap <= ContactMaxTime
        /\ render(handle, clock + gap, clock + gap)

NextContact ==
    \/ KeyDownContact
    \/ KeyUpContact
    \/ PointerDownContact
    \/ FrameContact

SpecContact == InitContact /\ [][NextContact]_vars

----------------------------------------------------------------------------
(* castRayToWall as a function of its two arguments *)

\* origins in passable cells: the cell centres, the spawn point, and points on
\* a cell's west or north edge
RayOrigins ==
    ProbePoints \cup { [x |-> SPAWN.x, y |-> SPAWN.y], [x |-> 300, y |-> 350], [x |-> 1050, y |-> 200],
                       [x |-> 220, y |-> 120], [x |-> 700, y |-> 500] }

\* non-zero direction vectors (1/1000): along the axes, diagonal, oblique, and
\* not of unit length
RayDirs ==
    { [x |-> 1000, y |-> 0], [x |-> -1000, y |-> 0], [x |-> 0, y |-> 1000], [x |-> 0, y |-> -1000],
      [x |-> 707, y |-> 707], [x |-> -707, y |-> 707], [x |-> 707, y |-> -707], [x |-> -707, y |-> -707],
      Dir(SPAWN.angle), [x |-> 2000, y |-> -500], [x |-> -3, y |-> 1], [x |-> 1, y |-> 40] }

InitRay ==
    /\ clock = 0
    /\ lastTime = 0
    /\ keys = {}
    /\ pointerLocked = FALSE
    /\ player = [pos |-> [x |-> SPAWN.x, y |-> SPAWN.y], angle |-> SPAWN.angle]
    /\ playerHealth = playerMaxHealth
    /\ playerDeadUntil = 0
    /\ enemyStates = [i \in EnemyIds |-> InitEnemy(i)]
    /\ projectiles = << >>
    /\ shots = 0
    /\ applied = [id \in 1..MaxShots |-> << >>]
    /\ animationFrame = FrameHandle(0)
    /\ host = Attached
    /\ tickDt = 0
    /\ \E from \in RayOrigins, dir \in RayDirs :
          probe = [op |-> "castRayToWall", from |-> from, dir |-> dir, done |-> FALSE,
                   hit |-> [x |-> 0, y |-> 0, dist |-> 0, mapX |-> 0, mapY |-> 0, side |-> 0,
                            cells |-> << >>]]

\* evaluates castRayToWall(from, dir)
ProbeRay ==
    /\ probe.op = "castRayToWall"
    /\ ~probe.done
    /\ probe' = [probe EXCEPT !.done = TRUE, !.hit = castRayToWall(probe.from, probe.dir)]
    /\ UNCHANGED << clock, lastTime, keys, pointerLocked, player, playerHealth,
                    playerDeadUntil, enemyStates, projectiles, shots, applied,
                    animationFrame, host, tickDt >>

NextRay == ProbeRay

SpecRay == InitRay /\ [][NextRay]_vars

----------------------------------------------------------------------------
(* The life of the effect: it runs with or without a drawing context, the     *)
(* engine is driven by keys, pointer and frames, and the cleanup detaches it  *)

LifeMaxShots == 2

LifeMaxTime == 800

LifeGaps == { 400 }

\* the browser's side when lines 16-19 have returned early: nothing was
\* registered, nothing requested, nothing shown
Inert ==
    [context |-> FALSE, listeners |-> {}, pendingFrames |-> {}, captureRequested |-> FALSE,
     reports |-> 0]

\* the effect of lines 15-838 has run: getContext('2d') gave a context or null
InitLife ==
    /\ clock = 0
    /\ lastTime = 0
    /\ keys = {}
    /\ pointerLocked = FALSE
    /\ player = [pos |-> [x |-> SPAWN.x, y |-> SPAWN.y], angle |-> SPAWN.angle]
    /\ playerHealth = playerMaxHealth
    /\ playerDeadUntil = 0
    /\ enemyStates = [i \in EnemyIds |-> InitEnemy(i)]
    /\ projectiles = << >>
    /\ shots = 0
    /\ applied = [id \in 1..LifeMaxShots |-> << >>]
    /\ \E ctx \in BOOLEAN :
          /\ host = IF ctx THEN Attached ELSE Inert
          /\ animationFrame = IF ctx THEN FrameHandle(0) ELSE 0
    /\ tickDt = 0
    /\ probe = NoProbe

\* a cleanup that removes the listeners and leaves the frame request standing
cleanupKeepsFrame ==
    /\ host' = [host EXCEPT !.listeners = @ \ Listeners]
    /\ UNCHANGED << clock, lastTime, keys, pointerLocked, player, playerHealth,
                    playerDeadUntil, enemyStates, projectiles, shots, applied,
                    animationFrame, tickDt, probe >>

\* lines 840-848: the function the effect returns
cleanup ==
    /\ host' = [host EXCEPT !.listeners = @ \ Listeners,
                            !.pendingFrames = @ \ {animationFrame}]
    /\ UNCHANGED << clock, lastTime, keys, pointerLocked, player, playerHealth,
                    playerDeadUntil, enemyStates, projectiles, shots, applied,
                    animationFrame, tickDt, probe >>

\* React runs the cleanup once, and only for an effect that returned it
Detach ==
    /\ host.context
    /\ host.listeners # {}
    /\ cleanup

FrameLife ==
    \E handle \in host.pendingFrames, gap \in LifeGaps :
        /\ clock + gap <= LifeMaxTime
        /\ render(handle, clock + gap, clock + gap)

PointerDownLife ==
    /\ Listening("pointerdown")
    /\ (pointerLocked /\ ~(playerDeadUntil > clock)) => shots < LifeMaxShots
    /\ handlePointerDown(clock)

NextLife ==
    \/ FrameLife
    \/ PointerDownLife
    \/ PointerLockChange
    \/ PointerMove
    \/ KeyDown
    \/ KeyUp
    \/ Detach

SpecLife == InitLife /\ [][NextLife]_vars

----------------------------------------------------------------------------
(* world.ts and the player of page.tsx built from a map and a spawn point    *)
(* other than MAP and SPAWN                                                   *)

\* candidate maps: well formed, with a row shorter than the first, with a row
\* longer than the first, and with no row at all
WorldMaps ==
    { << << 1,1,1,1 >>, << 1,0,0,1 >>, << 1,0,0,1 >>, << 1,1,1,1 >> >>,
      << << 1,1,1,1 >>, << 1,0,0 >>,   << 1,0,0,1 >>, << 1,1,1,1 >> >>,
      << << 1,1,1,1 >>, << 1,0,0,1 >>, << 1,0 >>,     << 1,1,1,1 >> >>,
      << << 1,1,1,1 >>, << 1,0,0,1,0 >>, << 1,0,0,1 >>, << 1,1,1,1 >> >>,
      << >> }

\* candidate spawn points: the centres of the cells of a 4 x 4 grid
WorldSpawns ==
    { [x |-> cx * Scale + Scale \div 2, y |-> cy * Scale + Scale \div 2] : cx \in 0..3, cy \in 0..3 }

\* isWall of world.ts over the rows `map`: map[y][x] of a row that is too short
\* is undefined, which differs from '0'
isWallIn(map, x, y) ==
    IF x < 0 \/ y < 0 \/ x >= Len(map[1]) \/ y >= Len(map) THEN TRUE
    ELSE IF x + 1 > Len(map[y + 1]) THEN TRUE
    ELSE map[y + 1][x + 1] # 0

\* what loading world.ts and building the player come to: MAP[0].length throws
\* for a map without rows, and nothing else looks at the rows or at the spawn
loadWorld(map, spawn) ==
    IF Len(map) = 0
    THEN [built |-> FALSE, mapWidth |-> 0, mapHeight |-> 0, pos |-> spawn]
    ELSE [built |-> TRUE, mapWidth |-> Len(map[1]), mapHeight |-> Len(map), pos |-> spawn]

InitWorld ==
    /\ clock = 0
    /\ lastTime = 0
    /\ keys = {}
    /\ pointerLocked = FALSE
    /\ player = [pos |-> [x |-> SPAWN.x, y |-> SPAWN.y], angle |-> SPAWN.angle]
    /\ playerHealth = playerMaxHealth
    /\ playerDeadUntil = 0
    /\ enemyStates = [i \in EnemyIds |-> InitEnemy(i)]
    /\ projectiles = << >>
    /\ shots = 0
    /\ applied = [id \in 1..MaxShots |-> << >>]
    /\ animationFrame = FrameHandle(0)
    /\ host = Attached
    /\ tickDt = 0
    /\ \E map \in WorldMaps, spawn \in WorldSpawns :
          probe = [op |-> "loadWorld", map |-> map, spawn |-> spawn, done |-> FALSE,
                   world |-> [built |-> FALSE, mapWidth |-> 0, mapHeight |-> 0, pos |-> spawn]]

\* evaluates the module and the player's construction
ProbeWorld ==
    /\ probe.op = "loadWorld"
    /\ ~probe.done
    /\ probe' = [probe EXCEPT !.done = TRUE, !.world = loadWorld(probe.map, probe.spawn)]
    /\ UNCHANGED << clock, lastTime, keys, pointerLocked, player, playerHealth,
                    playerDeadUntil, enemyStates, projectiles, shots, applied,
                    animationFrame, host, tickDt >>

NextWorld == ProbeWorld

SpecWorld == InitWorld /\ [][NextWorld]_vars

----------------------------------------------------------------------------
(* Frames only: the engine from construction, called back at uneven intervals *)

TickMaxTime == 200

TickGaps == { 7, 49, 50, 51, 120 }

FrameTick ==
    \E handle \in host.pendingFrames, gap \in TickGaps :
        /\ clock + gap <= TickMaxTime
        /\ render(handle, clock + gap, clock + gap)

NextTick == FrameTick

SpecTick == Init /\ [][NextTick]_vars

----------------------------------------------------------------------------
(* Rapid fire down the south corridor: the pointer is captured, the player   *)
(* stands at its east end facing west, clicks and frames come BurstGap apart *)

BurstMaxShots == 12

BurstMaxTime == 780

BurstGap == 60

BurstSpots == { [x |-> 1050, y |-> 550], [x |-> 1000, y |-> 540] }

InitBurst ==
    /\ clock = 0
    /\ lastTime = 0
    /\ keys = {}
    /\ pointerLocked = TRUE
    /\ \E pos \in BurstSpots : player = [pos |-> pos, angle |-> -31416]
    /\ playerHealth = playerMaxHealth
    /\ playerDeadUntil = 0
    /\ enemyStates = [i \in EnemyIds |-> InitEnemy(i)]
    /\ projectiles = << >>
    /\ shots = 0
    /\ applied = [id \in 1..BurstMaxShots |-> << >>]
    /\ animationFrame = FrameHandle(0)
    /\ host = Attached
    /\ tickDt = 0
    /\ probe = NoProbe

PointerDownBurst ==
    /\ Listening("pointerdown")
    /\ shots < BurstMaxShots
    /\ clock + BurstGap <= BurstMaxTime
    /\ handlePointerDown(clock + BurstGap)

FrameBurst ==
    \E handle \in host.pendingFrames :
        /\ clock + BurstGap <= BurstMaxTime
        /\ render(handle, clock + BurstGap, clock + BurstGap)

NextBurst ==
    \/ PointerDownBurst
    \/ FrameBurst

SpecBurst == InitBurst /\ [][NextBurst]_vars

----------------------------------------------------------------------------
(* Clicking next to an enemy: the player stands within contact range of enemy *)
(* 3 and faces it, with full health or with the 2 points that seven contact   *)
(* hits leave; the pointer is captured or not; a click comes ClickLag after   *)
(* the callback before it                                                    *)

ClickMaxShots == 2

ClickMaxTime == 170

ClickLag == 10

ClickGaps == { 50 }

InitClick ==
    /\ clock = 0
    /\ lastTime = 0
    /\ keys = {}
    /\ pointerLocked \in BOOLEAN
    /\ player = [pos |-> [x |-> 637, y |-> 550], angle |-> -31416]
    /\ playerHealth \in { playerMaxHealth, playerMaxHealth - 7 * enemyContactDamage }
    /\ playerDeadUntil = 0
    /\ enemyStates = [i \in EnemyIds |-> InitEnemy(i)]
    /\ projectiles = << >>
    /\ shots = 0
    /\ applied = [id \in 1..ClickMaxShots |-> << >>]
    /\ animationFrame = FrameHandle(0)
    /\ host = Attached
    /\ tickDt = 0
    /\ probe = NoProbe

PointerDownClick ==
    /\ Listening("pointerdown")
    /\ shots < ClickMaxShots
    /\ clock + ClickLag <= ClickMaxTime
    /\ handlePointerDown(clock + ClickLag)

FrameClick ==
    \E handle \in host.pendingFrames, gap \in ClickGaps :
        /\ clock + gap <= ClickMaxTime
        /\ render(handle, clock + gap, clock + gap)

NextClick ==
    \/ PointerDownClick
    \/ FrameClick
    \/ PointerLockChange

SpecClick == InitClick /\ [][NextClick]_vars

----------------------------------------------------------------------------
(* The same close encounter with the keyboard: the forward key at any time,   *)
(* the turn key once the player is dead                                       *)

KeyDownDead ==
    /\ Listening("keydown")
    /\ \/ handleKeyDown("w")
       \/ playerDeadUntil > clock /\ handleKeyDown("arrowleft")

KeyUpDead == \E k \in keys : Listening("keyup") /\ handleKeyUp(k)

NextDead ==
    \/ KeyDownDead
    \/ KeyUpDead
    \/ PointerDownClick
    \/ FrameClick

SpecDead == InitClick /\ [][NextDead]_vars

----------------------------------------------------------------------------
(* The player half a cell east of enemy 3, which stands on its base as a      *)
(* respawn leaves it; enemy 1 as built, or dead for another 120 ms            *)

GraveMaxShots == 4

GraveMaxTime == 420

InitGrave ==
    /\ clock = 0
    /\ lastTime = 0
    /\ keys = {}
    /\ pointerLocked = TRUE
    /\ player = [pos |-> [x |-> 290, y |-> 550], angle |-> -31416]
    /\ playerHealth = playerMaxHealth
    /\ playerDeadUntil = 0
    /\ \E rise \in { 0, 120 } :
          enemyStates = [i \in EnemyIds |->
              CASE i = 3 -> KillEnemy(InitEnemy(3), 3, -enemyRespawnMs)
                [] i = 1 /\ rise > 0 -> KillEnemy(InitEnemy(1), 1, rise - enemyRespawnMs)
                [] OTHER -> InitEnemy(i)]
    /\ projectiles = << >>
    /\ shots = 0
    /\ applied = [id \in 1..GraveMaxShots |-> << >>]
    /\ animationFrame = FrameHandle(0)
    /\ host = Attached
    /\ tickDt = 0
    /\ probe = NoProbe

KeyDownGrave == Listening("keydown") /\ handleKeyDown("w")

KeyUpGrave == "w" \in keys /\ Listening("keyup") /\ handleKeyUp("w")

PointerDownGrave ==
    /\ Listening("pointerdown")
    /\ shots < GraveMaxShots
    /\ clock + BurstGap <= GraveMaxTime
    /\ handlePointerDown(clock + BurstGap)

FrameGrave ==
    \E handle \in host.pendingFrames :
        /\ clock + BurstGap <= GraveMaxTime
        /\ render(handle, clock + BurstGap, clock + BurstGap)

NextGrave ==
    \/ KeyDownGrave
    \/ KeyUpGrave
    \/ PointerDownGrave
    \/ FrameGrave

SpecGrave == InitGrave /\ [][NextGrave]_vars

----------------------------------------------------------------------------
(* Enemy behaviour from sampled scenes: the pointer is captured, the player  *)
(* stands still at the scene's pose, the enemies are where they are built    *)
(* except for the scene's one                                                *)

HuntMaxShots == 2

HuntMaxTime == 1600

HuntGaps == { 200 }

\* cornered: the player at the spawn pose, in the south-east corner, and enemy
\* 3 close by on its way to it
HuntScenes ==
    { [pos |-> [x |-> SPAWN.x, y |-> SPAWN.y], angle |-> SPAWN.angle, enemy |-> 3,
       state |-> [InitEnemy(3) EXCEPT !.pos = spot] ] :
         spot \in { [x |-> 1040, y |-> 560], [x |-> 1030, y |-> 579], [x |-> 1000, y |-> 550] } }
    \cup
    \* round the corner: the player has walked north up the east corridor, out
    \* of sight of enemy 3, which saw it last 500 ms before and is still chasing
    { [pos |-> [x |-> 1050, y |-> 350], angle |-> SPAWN.angle, enemy |-> 3,
       state |-> [InitEnemy(3) EXCEPT !.pos = spot, !.chaseUntil = 1200] ] :
         spot \in { [x |-> 950, y |-> 530], [x |-> 900, y |-> 550] } }
    \cup
    \* long shot: the player at the east end of the south corridor faces west,
    \* enemy 3 patrols beyond the detection range
    { [pos |-> [x |-> 1050, y |-> 550], angle |-> -31416, enemy |-> 3,
       state |-> [InitEnemy(3) EXCEPT !.pos = [x |-> 240 + RoundDiv(440 * t, 1000000), y |-> 550],
                                      !.patrolT = t] ] :
         t \in { 300000, 350000 } }

InitHunt ==
    /\ clock = 0
    /\ lastTime = 0
    /\ keys = {}
    /\ pointerLocked = TRUE
    /\ \E scene \in HuntScenes :
          /\ player = [pos |-> scene.pos, angle |-> scene.angle]
          /\ enemyStates = [i \in EnemyIds |-> IF i = scene.enemy THEN scene.state ELSE InitEnemy(i)]
    /\ playerHealth \in { playerMaxHealth, playerMaxHealth - 7 * enemyContactDamage }
    /\ playerDeadUntil = 0
    /\ projectiles = << >>
    /\ shots = 0
    /\ applied = [id \in 1..HuntMaxShots |-> << >>]
    /\ animationFrame = FrameHandle(0)
    /\ host = Attached
    /\ tickDt = 0
    /\ probe = NoProbe

PointerDownHunt ==
    /\ Listening("pointerdown")
    /\ shots < HuntMaxShots
    /\ ~(playerDeadUntil > clock)
    /\ handlePointerDown(clock)

FrameHunt ==
    \E handle \in host.pendingFrames, gap \in HuntGaps :
        /\ clock + gap <= HuntMaxTime
        /\ render(handle, clock + gap, clock + gap)

NextHunt ==
    \/ PointerDownHunt
    \/ FrameHunt

SpecHunt == InitHunt /\ [][NextHunt]_vars

\* the long shot with enemy 3 as built, in sight of the player, and enemy 1 on
\* patrol one step before an end of its segment
InitPatrol ==
    /\ clock = 0
    /\ lastTime = 0
    /\ keys = {}
    /\ pointerLocked = TRUE
    /\ player = [pos |-> [x |-> 1050, y |-> 550], angle |-> -31416]
    /\ \E end \in { [t |-> 990000, dir |-> 1], [t |-> 10000, dir |-> -1] } :
          enemyStates = [i \in EnemyIds |->
              IF i = 1
              THEN [InitEnemy(1) EXCEPT
                      !.pos = [x |-> ENEMIES[1].base.x + RoundDiv(ENEMIES[1].patrol.x * end.t, 1000000),
                               y |-> ENEMIES[1].base.y],
                      !.patrolT = end.t,
                      !.patrolDir = end.dir]
              ELSE InitEnemy(i)]
    /\ playerHealth = playerMaxHealth
    /\ playerDeadUntil = 0
    /\ projectiles = << >>
    /\ shots = 0
    /\ applied = [id \in 1..HuntMaxShots |-> << >>]
    /\ animationFrame = FrameHandle(0)
    /\ host = Attached
    /\ tickDt = 0
    /\ probe = NoProbe

SpecPatrol == InitPatrol /\ [][NextHunt]_vars

----------------------------------------------------------------------------
(* knockbackEnemy and resolvePlayerEnemyCollision on their own, called on     *)
(* sampled positions                                                          *)

\* enemy positions in the north corridor, at several distances from its west
\* wall and from its north and south walls
KnockSpots == { [x |-> x, y |-> y] : x \in { 225, 235, 250, 270, 340 }, y \in { 118, 150, 181 } }

\* where the projectile started: east of the enemy, on the enemy, south-west
\* of it in the west pocket, and on diagonals
KnockFroms ==
    { [x |-> 600, y |-> 150], [x |-> 250, y |-> 150], [x |-> 150, y |-> 250],
      [x |-> 500, y |-> 181], [x |-> 550, y |-> 120] }

\* the player and enemy 3 in and near the spawn corner, closer to each other
\* than the two radii, apart, or on the same point
PushScenes ==
    { [pos |-> pos, angle |-> angle, enemy |-> spot] :
        pos \in { [x |-> SPAWN.x, y |-> SPAWN.y], [x |-> 1070, y |-> 550], [x |-> 1050, y |-> 550],
                  [x |-> 1060, y |-> 572] },
        angle \in { SPAWN.angle, -31416 },
        spot \in { [x |-> 1060, y |-> 570], [x |-> 1040, y |-> 550], [x |-> 1030, y |-> 540],
                   [x |-> 1050, y |-> 550], [x |-> 1079, y |-> 579] } }

InitGeom ==
    /\ clock = 0
    /\ lastTime = 0
    /\ keys = {}
    /\ pointerLocked = TRUE
    /\ playerHealth = playerMaxHealth
    /\ playerDeadUntil = 0
    /\ projectiles = << >>
    /\ shots = 0
    /\ applied = [id \in 1..MaxShots |-> << >>]
    /\ animationFrame = FrameHandle(0)
    /\ host = Attached
    /\ tickDt = 0
    /\ \/ /\ player = [pos |-> [x |-> SPAWN.x, y |-> SPAWN.y], angle |-> SPAWN.angle]
          /\ enemyStates = [i \in EnemyIds |-> InitEnemy(i)]
          /\ \E pos \in KnockSpots, from \in KnockFroms :
                probe = [op |-> "knockbackEnemy", pos |-> pos, from |-> from, done |-> FALSE,
                         out |-> pos]
       \/ /\ \E scene \in PushScenes :
                /\ player = [pos |-> scene.pos, angle |-> scene.angle]
                /\ enemyStates = [i \in EnemyIds |->
                                    IF i = 3 THEN [InitEnemy(3) EXCEPT !.pos = scene.enemy]
                                    ELSE InitEnemy(i)]
          /\ probe = [op |-> "resolvePlayerEnemyCollision", done |-> FALSE]

\* evaluates knockbackEnemy for an enemy at probe.pos and a projectile started
\* at probe.from
ProbeKnockback ==
    /\ probe.op = "knockbackEnemy"
    /\ ~probe.done
    /\ probe' = [probe EXCEPT !.done = TRUE, !.out = knockbackEnemy(probe.pos, probe.from)]
    /\ UNCHANGED << clock, lastTime, keys, pointerLocked, player, playerHealth,
                    playerDeadUntil, enemyStates, projectiles, shots, applied,
                    animationFrame, host, tickDt >>

\* one call of resolvePlayerEnemyCollision(time): it writes player.pos and
\* nothing else
ProbePushOut ==
    /\ probe.op = "resolvePlayerEnemyCollision"
    /\ ~probe.done
    /\ probe' = [probe EXCEPT !.done = TRUE]
    /\ player' = [player EXCEPT !.pos = resolvePlayerEnemyCollision(player.pos, player.angle,
                                                                   enemyStates, clock)]
    /\ UNCHANGED << clock, lastTime, keys, pointerLocked, playerHealth,
                    playerDeadUntil, enemyStates, projectiles, shots, applied,
                    animationFrame, host, tickDt >>

NextGeom ==
    \/ ProbeKnockback
    \/ ProbePushOut

SpecGeom == InitGeom /\ [][NextGeom]_vars

----------------------------------------------------------------------------
(* The DDA loop of castRayToWall and of the wall pass, one iteration at a time *)

DdaMaxSteps == 24

\* rayDir of the wall pass for a player heading `angle` and a column whose
\* cameraX is `hundredths` / 100: dir + plane * cameraX, plane = (-dir.y, dir.x) * 0.66
ColumnRay(angle, hundredths) ==
    LET dir == Dir(angle)
    IN  [x |-> dir.x + RoundDiv(-dir.y * 66 * hundredths, 10000),
         y |-> dir.y + RoundDiv(dir.x * 66 * hundredths, 10000)]

\* the directions of RayDirs, the zero vector, and the rays of the first, the
\* middle and the last column of the screen
DdaDirs ==
    RayDirs \cup { [x |-> 0, y |-> 0] }
            \cup { ColumnRay(angle, c) : angle \in { SPAWN.angle, -31416 }, c \in { -100, 0, 100 } }

InitDda ==
    /\ clock = 0
    /\ lastTime = 0
    /\ keys = {}
    /\ pointerLocked = FALSE
    /\ player = [pos |-> [x |-> SPAWN.x, y |-> SPAWN.y], angle |-> SPAWN.angle]
    /\ playerHealth = playerMaxHealth
    /\ playerDeadUntil = 0
    /\ enemyStates = [i \in EnemyIds |-> InitEnemy(i)]
    /\ projectiles = << >>
    /\ shots = 0
    /\ applied = [id \in 1..MaxShots |-> << >>]
    /\ animationFrame = FrameHandle(0)
    /\ host = Attached
    /\ tickDt = 0
    /\ \E from \in RayOrigins, dir \in DdaDirs :
          probe = [op |-> "dda", from |-> from, dir |-> dir, s |-> RayStart(from, dir),
                   hit |-> FALSE]

\* one iteration of `while (hit === 0)`
DdaStep ==
    /\ probe.op = "dda"
    /\ ~probe.hit
    /\ Len(probe.s.cells) <= DdaMaxSteps
    /\ LET m == RayStep(probe.s, probe.dir)
       IN  probe' = [probe EXCEPT !.s = m, !.hit = isWall(m.mapX, m.mapY)]
    /\ UNCHANGED << clock, lastTime, keys, pointerLocked, player, playerHealth,
                    playerDeadUntil, enemyStates, projectiles, shots, applied,
                    animationFrame, host, tickDt >>

NextDda == DdaStep

SpecDda == InitDda /\ [][NextDda]_vars

\* the loop is straight-line code of one callback: while hit is 0 the next
\* iteration runs
FairSpecDda == SpecDda /\ WF_vars(DdaStep)

----------------------------------------------------------------------------
(* lib/blob-storage.ts: the grid blob and the update queue of GridBlobStorage. *)
(* The storage object lives in probe: the stored grid and its ETag (0: no     *)
(* blob), and the chain of promises that updateQueue has been assigned.       *)

\* the engine's variables, which the storage and the colour grid do not touch
EngineAsBuilt ==
    /\ clock = 0
    /\ lastTime = 0
    /\ keys = {}
    /\ pointerLocked = FALSE
    /\ player = [pos |-> [x |-> SPAWN.x, y |-> SPAWN.y], angle |-> SPAWN.angle]
    /\ playerHealth = playerMaxHealth
    /\ playerDeadUntil = 0
    /\ enemyStates = [i \in EnemyIds |-> InitEnemy(i)]
    /\ projectiles = << >>
    /\ shots = 0
    /\ applied = [id \in 1..MaxShots |-> << >>]
    /\ animationFrame = FrameHandle(0)
    /\ host = Attached
    /\ tickDt = 0

EngineUnchanged ==
    UNCHANGED << clock, lastTime, keys, pointerLocked, player, playerHealth,
                 playerDeadUntil, enemyStates, projectiles, shots, applied,
                 animationFrame, host, tickDt >>

MAX_RETRIES == 5

BlobMaxCalls == 2

BlobMaxETag == 7

GridKeys == 1..2

createEmptyGrid == [k \in GridKeys |-> "none"]

\* the mutations a caller can ask for
BlobRequests ==
    { [kind |-> "updateSquare", key |-> k, color |-> "red"] : k \in GridKeys }
    \cup { [kind |-> "deleteSquare", key |-> 1, color |-> "none"],
           [kind |-> "clearAllSquares", key |-> 0, color |-> "none"] }

\* lines 96-125: what the load hands to the operation; `read` is false when
\* head or fetch fails, and both a missing blob and a failed read give the
\* empty grid with a null ETag
loadGridData(grid, etag, read) ==
    IF read /\ etag # 0 THEN [data |-> grid, etag |-> etag]
    ELSE [data |-> createEmptyGrid, etag |-> 0]

\* lines 265, 293, 306: the change the operation makes to the loaded grid
Modify(req, data) ==
    CASE req.kind = "updateSquare" -> [data EXCEPT ![req.key] = req.color]
      [] req.kind = "deleteSquare" -> [data EXCEPT ![req.key] = "none"]
      [] OTHER -> createEmptyGrid

\* lines 127-162: the ETag is compared only if one is expected and the HEAD
\* request returns one (`seen` is 0 when it fails); then the blob is put
saveGridDataWithConditionalWrite(expectedETag, seen, putOk) ==
    IF expectedETag # 0 /\ seen # 0 /\ seen # expectedETag THEN "conflict"
    ELSE IF putOk THEN "saved" ELSE "failed"

\* lines 164-181: only a conflict is retried, and at most MAX_RETRIES times
retryWithBackoff(outcome, retryCount) ==
    IF outcome = "conflict" /\ retryCount < MAX_RETRIES THEN "retry" ELSE "rejected"

Settled(call) == call.state \in { "fulfilled", "rejected" }

\* the promise the call's callback was chained on: Promise.resolve() for the
\* first call (line 61), the promise of the call before for the others
QueueBefore(calls, k) == IF k = 1 THEN "fulfilled" ELSE calls[k - 1].state

InitBlob ==
    /\ EngineAsBuilt
    /\ \E grid \in { createEmptyGrid, [k \in GridKeys |-> "blue"] } :
          probe = [op |-> "blob",
                   grid |-> grid,
                   etag |-> IF grid = createEmptyGrid THEN 0 ELSE 1,
                   calls |-> << >>]

\* lines 258, 284, 301: this.updateQueue = this.updateQueue.then(callback)
BlobCall ==
    /\ probe.op = "blob"
    /\ Len(probe.calls) < BlobMaxCalls
    /\ \E req \in BlobRequests :
          probe' = [probe EXCEPT !.calls =
                       Append(@, [req |-> req, state |-> "queued", retryCount |-> 0,
                                  loads |-> 0, data |-> createEmptyGrid, etag |-> 0])]
    /\ EngineUnchanged

\* then() on a rejected promise: the callback is not called and the promise
\* returned, which is the new updateQueue, is rejected with the same error
BlobSkip ==
    /\ probe.op = "blob"
    /\ \E k \in 1..Len(probe.calls) :
          /\ probe.calls[k].state = "queued"
          /\ probe.calls[k].loads = 0
          /\ QueueBefore(probe.calls, k) = "rejected"
          /\ probe' = [probe EXCEPT !.calls[k].state = "rejected"]
    /\ EngineUnchanged

\* the callback runs, or the retry after the back-off: loadGridData
BlobLoad ==
    /\ probe.op = "blob"
    /\ \E k \in 1..Len(probe.calls), read \in BOOLEAN :
          /\ probe.calls[k].state = "queued"
          /\ QueueBefore(probe.calls, k) = "fulfilled"
          /\ LET loaded == loadGridData(probe.grid, probe.etag, read)
             IN  probe' = [probe EXCEPT !.calls[k].state = "loaded",
                                        !.calls[k].loads = @ + 1,
                                        !.calls[k].data = loaded.data,
                                        !.calls[k].etag = loaded.etag]
    /\ EngineUnchanged

\* the rest of the operation: the change, the conditional write and what
\* retryWithBackoff makes of its outcome
BlobSave ==
    /\ probe.op = "blob"
    /\ \E k \in 1..Len(probe.calls), headOk \in BOOLEAN, putOk \in BOOLEAN :
          LET call == probe.calls[k]
              data == Modify(call.req, call.data)
              outcome == saveGridDataWithConditionalWrite(
                             call.etag, IF headOk THEN probe.etag ELSE 0, putOk)
          IN  /\ call.state = "loaded"
              /\ IF call.req.kind = "deleteSquare" /\ call.data[call.req.key] = "none"
                 THEN probe' = [probe EXCEPT !.calls[k].state = "fulfilled"]
                 ELSE IF outcome = "saved"
                 THEN probe' = [probe EXCEPT !.grid = data,
                                             !.etag = probe.etag + 1,
                                             !.calls[k].state = "fulfilled"]
                 ELSE IF retryWithBackoff(outcome, call.retryCount) = "retry"
                 THEN probe' = [probe EXCEPT !.calls[k].state = "queued",
                                             !.calls[k].retryCount = @ + 1]
                 ELSE probe' = [probe EXCEPT !.calls[k].state = "rejected"]
    /\ EngineUnchanged

\* another server instance rewrites the blob between a load and the save
BlobForeign ==
    /\ probe.op = "blob"
    /\ probe.etag # 0
    /\ probe.etag < BlobMaxETag
    /\ \E k \in 1..Len(probe.calls) : probe.calls[k].state = "loaded"
    /\ probe' = [probe EXCEPT !.etag = @ + 1]
    /\ EngineUnchanged

NextBlob ==
    \/ BlobCall
    \/ BlobSkip
    \/ BlobLoad
    \/ BlobSave
    \/ BlobForeign

SpecBlob == InitBlob /\ [][NextBlob]_vars

----------------------------------------------------------------------------
(* components/color-grid.tsx: the squares of the grid state, the one timer of *)
(* the debounced updateSquareInDatabase, and the POST requests in flight      *)

GridMaxClicks == 3

GridColours == { "#FF6B6B", "#4ECDC4" }

NoTimeout == [key |-> 0, color |-> "none"]

\* grid-utils createInitialGridState: no colour, not loading
createInitialGridState == [k \in GridKeys |-> [color |-> "none", isLoading |-> FALSE]]

\* grid-utils debounce, lines 458-461 of the utilities: the pending timeout
\* is cleared and a new one is set with the arguments of this call
debounce(timeout, key, color) == [key |-> key, color |-> color]

InitGrid ==
    /\ EngineAsBuilt
    /\ probe = [op |-> "grid",
                squares |-> createInitialGridState,
                timeout |-> NoTimeout,
                inFlight |-> {},
                unsent |-> {},
                clicks |-> 0]

\* lines 136-161: handleSquareClick on a square that is not loading
handleSquareClick(key, newColor) ==
    /\ ~probe.squares[key].isLoading
    /\ probe' = [probe EXCEPT !.squares[key] = [color |-> newColor, isLoading |-> TRUE],
                              !.timeout = debounce(probe.timeout, key, newColor),
                              !.unsent = @ \cup { key },
                              !.clicks = @ + 1]

GridClick ==
    /\ probe.op = "grid"
    /\ probe.clicks < GridMaxClicks
    /\ \E key \in GridKeys, newColor \in GridColours : handleSquareClick(key, newColor)
    /\ EngineUnchanged

\* the timeout elapses, 300 ms after the last call: lines 72-79 send the POST
GridTimeout ==
    /\ probe.op = "grid"
    /\ probe.timeout # NoTimeout
    /\ probe' = [probe EXCEPT !.timeout = NoTimeout,
                              !.inFlight = @ \cup { probe.timeout },
                              !.unsent = @ \ { probe.timeout.key }]
    /\ EngineUnchanged

\* lines 81-131: the response, or the network error, of one request
GridRespond ==
    /\ probe.op = "grid"
    /\ \E request \in probe.inFlight, success \in BOOLEAN :
          probe' = [probe EXCEPT
                      !.inFlight = @ \ { request },
                      !.squares[request.key] =
                          [color |-> IF success THEN @.color ELSE "none", isLoading |-> FALSE]]
    /\ EngineUnchanged

NextGrid ==
    \/ GridClick
    \/ GridTimeout
    \/ GridRespond

SpecGrid == InitGrid /\ [][NextGrid]_vars

\* a timeout that is not cleared fires, and a fetch settles
FairSpecGrid == SpecGrid /\ WF_vars(GridTimeout) /\ WF_vars(GridRespond)

----------------------------------------------------------------------------
(* Geometry and step vocabulary of the properties *)

\* enemy i applies contact damage in the step: lines 341-342 stamp the frame's
\* timestamp on its lastDamageAt
Damaged(i) ==
    /\ enemyStates'[i].lastDamageAt # enemyStates[i].lastDamageAt
    /\ enemyStates'[i].lastDamageAt = lastTime'

\* squared distance, in 1/100 cell, from point pos to the closed cell (cx, cy)
CellDist2(pos, cx, cy) ==
    LET ex == Max(0, Max(cx * Scale - pos.x, pos.x - (cx + 1) * Scale))
        ey == Max(0, Max(cy * Scale - pos.y, pos.y - (cy + 1) * Scale))
    IN  ex * ex + ey * ey

\* the parameter interval, as fractions lo and hi of the segment, on which the
\* coordinate a + t * d lies strictly between c0 and c0 + Scale
AxisSpan(a, d, c0) ==
    IF d > 0 THEN [lo |-> [n |-> c0 - a, d |-> d], hi |-> [n |-> c0 + Scale - a, d |-> d]]
    ELSE IF d < 0 THEN [lo |-> [n |-> a - c0 - Scale, d |-> -d], hi |-> [n |-> a - c0, d |-> -d]]
    ELSE IF c0 < a /\ a < c0 + Scale
         THEN [lo |-> [n |-> -1, d |-> 1], hi |-> [n |-> 2, d |-> 1]]
         ELSE [lo |-> [n |-> 1, d |-> 1], hi |-> [n |-> 0, d |-> 1]]

FracLess(p, q) == p.n * q.d < q.n * p.d

\* the segment from a to b passes through the interior of cell (cx, cy)
CrossesCell(a, b, cx, cy) ==
    LET sx == AxisSpan(a.x, b.x - a.x, cx * Scale)
        sy == AxisSpan(a.y, b.y - a.y, cy * Scale)
        lo == IF FracLess(sx.lo, sy.lo) THEN sy.lo ELSE sx.lo
        hi == IF FracLess(sx.hi, sy.hi) THEN sx.hi ELSE sy.hi
    IN  /\ FracLess(lo, hi)
        /\ FracLess(lo, [n |-> 1, d |-> 1])
        /\ FracLess([n |-> 0, d |-> 1], hi)

\* a wall cell lies on the segment from a to b
WallBetween(a, b) ==
    \E cx \in 0..(mapWidth - 1), cy \in 0..(mapHeight - 1) :
        isWall(cx, cy) /\ CrossesCell(a, b, cx, cy)

\* the aim cone of tryShoot: forward projection at least 0.98, perpendicular
\* offset at most 0.35
InAimCone(ppos, dir, epos) ==
    LET dx == epos.x - ppos.x
        dy == epos.y - ppos.y
        dist == Hypot(dx, dy)
    IN  /\ dist > 0
        /\ dx * dir.x + dy * dir.y >= 98 * dist
        /\ Abs(dx * dir.y - dy * dir.x) <= 35000

EnemyDistance(i) == Hypot(enemyStates[i].pos.x - player.pos.x, enemyStates[i].pos.y - player.pos.y)

\* the alive enemies in the aim cone that are not occluded, in the current state
Candidates ==
    { i \in EnemyIds : /\ enemyStates[i].deadUntil <= clock
                       /\ InAimCone(player.pos, Dir(player.angle), enemyStates[i].pos)
                       /\ ~isOccluded(player.pos, enemyStates[i].pos) }

\* the nearest of a non-empty set of enemies, the lowest index among equals
Nearest(S) ==
    CHOOSE i \in S : \A j \in S : \/ EnemyDistance(i) < EnemyDistance(j)
                                  \/ EnemyDistance(i) = EnemyDistance(j) /\ i <= j

\* this step is a shot: a projectile is pushed
Fired == shots' = shots + 1

Pushed == projectiles'[Len(projectiles')]

\* the projectile has just been fired and nothing has moved since
JustFired(p) == p.id = shots /\ p.startTime = clock /\ ~p.resolved

\* this step runs the impact logic for the projectile at index k
ResolvedNow(k) ==
    /\ ~projectiles[k].resolved
    /\ \E j \in 1..Len(projectiles') :
          projectiles'[j].id = projectiles[k].id /\ projectiles'[j].resolved

\* the number of projectiles aimed at enemy i whose impact logic this step runs
Hits(i) ==
    Cardinality({ k \in 1..Len(projectiles) : projectiles[k].hitEnemyIndex = i /\ ResolvedNow(k) })

\* enemy record e holds what the death transition writes
RespawnValues(e, i) ==
    /\ e.pos = ENEMIES[i].base
    /\ e.health = enemyMaxHealth
    /\ e.chaseUntil = 0
    /\ e.hitStunUntil = 0
    /\ e.patrolT = 0
    /\ e.patrolDir = 1

\* the player faces alive enemy i, 4 cells away along a row of open cells, and
\* no other alive enemy is in the aim cone
CorridorPose(i) ==
    /\ enemyStates[i].deadUntil <= clock
    /\ enemyStates[i].pos.y = player.pos.y
    /\ Abs(enemyStates[i].pos.x - player.pos.x) = 4 * Scale
    /\ Dir(player.angle) = [x |-> 1000 * Sign(enemyStates[i].pos.x - player.pos.x), y |-> 0]
    /\ ~WallBetween(player.pos, enemyStates[i].pos)
    /\ \A j \in EnemyIds \ {i} :
          \/ enemyStates[j].deadUntil > clock
          \/ ~InAimCone(player.pos, Dir(player.angle), enemyStates[j].pos)

\* a projectile fired down such a corridor at enemy i
CorridorProjectile(p, i) ==
    /\ p.hitEnemyIndex = i
    /\ p.start.y = p.end.y
    /\ Abs(p.end.x - p.start.x) = 4 * Scale

\* the step is a pointer-down: performance.now() is read outside a frame
PointerDownStep == clock' > clock /\ lastTime' = lastTime

\* the step creates exactly one projectile, the one fired at clock', and keeps
\* or shifts the ones that were live
OneShot ==
    /\ shots' = shots + 1
    /\ Pushed.id = shots'
    /\ Pushed.startTime = clock'
    /\ ~Pushed.resolved
    /\ SubSeq(projectiles', 1, Len(projectiles') - 1)
          = (IF Len(projectiles) = maxProjectiles THEN Tail(projectiles) ELSE projectiles)

\* the step asks the browser for the pointer capture and creates nothing
OnlyRequestsCapture ==
    /\ host'.captureRequested
    /\ UNCHANGED << projectiles, shots, pointerLocked >>

\* the step is a frame whose updateEnemies reaches enemy i: the player is alive
\* at the frame's timestamp or respawns in it, the enemy is alive, and no enemy
\* before it has killed the player (line 346: break)
Updated(i) ==
    /\ lastTime' # lastTime
    /\ playerDeadUntil <= lastTime'
    /\ enemyStates[i].deadUntil <= lastTime'
    /\ \A j \in 1..(i - 1) : ~(Damaged(j) /\ playerHealth' = 0)

\* where the player stands when the enemies of the step's frame are updated,
\* in the specifications without movement keys
UpdatePos == IF playerDeadUntil > 0 THEN [x |-> SPAWN.x, y |-> SPAWN.y] ELSE player.pos

\* enemy i has the player in sight at the update: nearer than the detection
\* range, and isOccluded(enemy, player) false
InSight(i) ==
    /\ Hypot(UpdatePos.x - enemyStates[i].pos.x, UpdatePos.y - enemyStates[i].pos.y)
          < enemyDetectionRange
    /\ ~isOccluded(enemyStates[i].pos, UpdatePos)

\* the square of half-width r around (x, y) touches no wall cell
SquareFree(x, y, r) ==
    \A sx \in { -1, 1 }, sy \in { -1, 1 } : ~isWall(Floor(x + sx * r), Floor(y + sy * r))

\* the point `tenThousandths` / 10000 of a cell away from pos along the
\* direction from `from` to pos
Along(pos, from, tenThousandths) ==
    LET len == Hypot(pos.x - from.x, pos.y - from.y)
    IN  IF len = 0 THEN pos
        ELSE [x |-> pos.x + RoundDiv((pos.x - from.x) * tenThousandths, len * 10),
              y |-> pos.y + RoundDiv((pos.y - from.y) * tenThousandths, len * 10)]

\* the step is one call of resolvePlayerEnemyCollision
PushStep == probe.op = "resolvePlayerEnemyCollision" /\ ~probe.done /\ probe'.done

\* the step is a frame in which resetPlayer runs (lines 482-484)
Respawns == lastTime' # lastTime /\ playerDeadUntil > 0 /\ lastTime' >= playerDeadUntil

\* the player's health when the step's updateEnemies starts
HealthAtUpdate == IF Respawns THEN playerMaxHealth ELSE playerHealth

----------------------------------------------------------------------------
(* Properties *)

\* C1: at the end of every frame the player's circle of radius 0.2 is clear of
\* every wall cell, up to 0.01 cell
C1_CircleClearOfWalls ==
    \A cx \in 0..(mapWidth - 1), cy \in 0..(mapHeight - 1) :
        isWall(cx, cy) => CellDist2(player.pos, cx, cy) >= (radius - 1) * (radius - 1)

\* C2: isOccluded(A, B) and isOccluded(B, A) return the same value
C2_OcclusionSymmetric ==
    (probe.op = "isOccluded" /\ probe.done) => probe.forth = probe.back

\* C3: the impact logic runs at most once for a projectile, never before its
\* hitAt, and the resolved flag is set exactly when it has run
C3_ImpactOnceNotEarly ==
    /\ \A id \in DOMAIN applied : Len(applied[id]) <= 1
    /\ \A k \in 1..Len(projectiles) :
          LET p == projectiles[k]
          IN  /\ p.resolved <=> Len(applied[p.id]) = 1
              /\ p.resolved => applied[p.id][1] >= p.hitAt

C3_ResolvedAfterFlight ==
    \E k \in 1..Len(projectiles) :
        LET p == projectiles[k]
        IN  p.resolved /\ p.hitEnemyIndex # 0 /\ applied[p.id] = << clock >> /\ clock > p.hitAt

\* C4: no step removes a projectile from the live set while its resolved flag
\* is still false
C4_NoUnresolvedRemoval ==
    [][\A k \in 1..Len(projectiles) :
          ~projectiles[k].resolved =>
              \E j \in 1..Len(projectiles') : projectiles'[j].id = projectiles[k].id]_vars

\* C5: a shot records the nearest candidate (alive, in the aim cone, not
\* occluded; lowest index among equals) when that enemy is strictly nearer than
\* the wall along the facing direction, and otherwise records no enemy and ends
\* at the wall hit point
C5_TargetSelection ==
    [][Fired =>
          LET wallHit == castRayToWall(player.pos, Dir(player.angle))
          IN  IF Candidates # {} /\ EnemyDistance(Nearest(Candidates)) < wallHit.dist
              THEN Pushed.hitEnemyIndex = Nearest(Candidates)
              ELSE /\ Pushed.hitEnemyIndex = 0
                   /\ Pushed.end = [x |-> wallHit.x, y |-> wallHit.y]]_vars

C5_NearestOfEquals ==
    \E k \in 1..Len(projectiles) :
        /\ JustFired(projectiles[k])
        /\ projectiles[k].hitEnemyIndex = 1
        /\ 2 \in Candidates
        /\ EnemyDistance(1) = EnemyDistance(2)

\* C6: no enemy is dead and chasing at the same time
C6_NeverDeadAndChasing ==
    \A i \in EnemyIds : ~(enemyStates[i].deadUntil > clock /\ enemyStates[i].chaseUntil > clock)

C6_DeadAfterHit ==
    \E i \in EnemyIds :
        /\ enemyStates[i].deadUntil > clock
        /\ \E k \in 1..Len(projectiles) :
              projectiles[k].hitEnemyIndex = i /\ projectiles[k].resolved

\* C7: in the step in which an enemy enters the dead state its position
\* becomes its spawn base
C7_DeadAtBase ==
    [][\A i \in EnemyIds :
          (enemyStates'[i].deadUntil # enemyStates[i].deadUntil /\ enemyStates'[i].deadUntil > clock')
              => enemyStates'[i].pos = ENEMIES[i].base]_vars

C7_JustDied ==
    \E i \in EnemyIds :
        /\ enemyStates[i].deadUntil = clock + enemyRespawnMs
        /\ enemyStates[i].pos = ENEMIES[i].base

\* C8: hits that bring an alive enemy's health to 0 set dead-until to now +
\* 3000 ms and nothing else changes dead-until; for as long as the enemy is dead
\* it is at its spawn base with maxHealth, not chasing and not hit-stunned, so
\* that is how it is alive again when the delay has elapsed
C8_DeathAndRespawn ==
    [][\A i \in EnemyIds :
          LET lethal == /\ enemyStates[i].deadUntil <= clock'
                        /\ Hits(i) >= enemyStates[i].health
          IN  /\ lethal => enemyStates'[i].deadUntil = clock' + enemyRespawnMs
              /\ enemyStates'[i].deadUntil # enemyStates[i].deadUntil => lethal
              /\ enemyStates'[i].deadUntil > clock' => RespawnValues(enemyStates'[i], i)
              /\ enemyStates'[i].health >= 1]_vars

C8_AliveAgain ==
    \E i \in EnemyIds :
        /\ enemyStates[i].deadUntil > 0
        /\ enemyStates[i].deadUntil <= clock
        /\ enemyStates[i].health = enemyMaxHealth

\* C9 as stated: a shot in the corridor pose targets the faced enemy, and the
\* step that resolves that projectile leaves the enemy's health 1 lower and
\* the enemy in hit-stun
C9_CorridorShot ==
    [][\A i \in EnemyIds :
          /\ (Fired /\ CorridorPose(i)) => Pushed.hitEnemyIndex = i
          /\ (\E k \in 1..Len(projectiles) : CorridorProjectile(projectiles[k], i) /\ ResolvedNow(k))
                => /\ enemyStates'[i].health = enemyStates[i].health - 1
                   /\ enemyStates'[i].hitStunUntil > clock']_vars

\* C9 amended: a shot in the corridor pose targets the faced enemy; the step
\* that resolves that projectile leaves an enemy that is alive and survives
\* with 1 health less per hit and hit-stunned until now + 220 ms, kills an
\* alive enemy whose health the hits exhaust (maxHealth again, hit-stun
\* cleared), and leaves a dead enemy as it is
C9_CorridorShotAmended ==
    [][\A i \in EnemyIds :
          /\ (Fired /\ CorridorPose(i)) => Pushed.hitEnemyIndex = i
          /\ (\E k \in 1..Len(projectiles) : CorridorProjectile(projectiles[k], i) /\ ResolvedNow(k))
                => IF enemyStates[i].deadUntil > clock'
                   THEN enemyStates'[i] = enemyStates[i]
                   ELSE IF Hits(i) < enemyStates[i].health
                   THEN /\ enemyStates'[i].health = enemyStates[i].health - Hits(i)
                        /\ enemyStates'[i].hitStunUntil = clock' + enemyHitStunMs
                        /\ enemyStates'[i].deadUntil = enemyStates[i].deadUntil
                   ELSE /\ enemyStates'[i].deadUntil = clock' + enemyRespawnMs
                        /\ enemyStates'[i].health = enemyMaxHealth
                        /\ enemyStates'[i].hitStunUntil = 0]_vars

C9_HitAndStunned ==
    \E i \in EnemyIds, k \in 1..Len(projectiles) :
        /\ CorridorProjectile(projectiles[k], i)
        /\ projectiles[k].resolved
        /\ enemyStates[i].health = enemyMaxHealth - 1
        /\ enemyStates[i].hitStunUntil = clock + enemyHitStunMs

\* C10: a shot fired while a wall cell lies on the segment from the player to
\* an enemy does not record that enemy, and an enemy's health changes only in
\* a step that resolves a projectile recorded against it
C10_OccludedShot ==
    [][\A i \in EnemyIds :
          /\ (Fired /\ WallBetween(player.pos, enemyStates[i].pos)) => Pushed.hitEnemyIndex # i
          /\ enemyStates'[i].health # enemyStates[i].health => Hits(i) > 0]_vars

C10_HiddenBehindCorner ==
    \E k \in 1..Len(projectiles), i \in EnemyIds :
        /\ JustFired(projectiles[k])
        /\ projectiles[k].hitEnemyIndex = 0
        /\ enemyStates[i].deadUntil <= clock
        /\ WallBetween(player.pos, enemyStates[i].pos)
        /\ InAimCone(player.pos, Dir(player.angle), enemyStates[i].pos)
        /\ EnemyDistance(i) < castRayToWall(player.pos, Dir(player.angle)).dist

\* C11: a projectile leaves the live set only after its whole visual lifetime:
\* at the moment of the removing step its travel has finished, its impact logic
\* has been applied and its 140 ms impact flash is over
C11_RemovedAfterLifetime ==
    [][\A k \in 1..Len(projectiles) :
          (~\E j \in 1..Len(projectiles') : projectiles'[j].id = projectiles[k].id) =>
              /\ clock' - projectiles[k].startTime >= projectiles[k].duration
              /\ projectiles[k].resolved
              /\ projectiles[k].flashUntil <= clock']_vars

\* C12: an enemy that is dead or in hit-stun applies no contact damage: the
\* player's health goes down in a step only through an enemy that is alive and
\* whose hit-stun has expired at the frame's timestamp
C12_ContactOnlyWhenActive ==
    [][/\ playerHealth' < playerHealth => \E i \in EnemyIds : Damaged(i)
       /\ \A i \in EnemyIds :
             Damaged(i) => /\ enemyStates[i].deadUntil <= lastTime'
                           /\ enemyStates[i].hitStunUntil <= lastTime']_vars

\* C13: for an origin in a passable cell and a non-zero direction castRayToWall
\* returns a finite distance that is not negative; the cell it stops in is a
\* wall cell, and the cells it stepped through before, each entered across an
\* edge of the one before, are passable
C13_RayStopsAtFirstWall ==
    (probe.op = "castRayToWall" /\ probe.done) =>
        LET hit == probe.hit
            n == Len(hit.cells)
        IN  /\ (IF hit.side = 0 THEN probe.dir.x ELSE probe.dir.y) # 0
            /\ hit.dist >= 0
            /\ isWall(hit.mapX, hit.mapY)
            /\ n >= 2
            /\ hit.cells[1] = << Floor(probe.from.x), Floor(probe.from.y) >>
            /\ hit.cells[n] = << hit.mapX, hit.mapY >>
            /\ \A k \in 1..(n - 1) :
                  /\ ~isWall(hit.cells[k][1], hit.cells[k][2])
                  /\ Abs(hit.cells[k + 1][1] - hit.cells[k][1])
                        + Abs(hit.cells[k + 1][2] - hit.cells[k][2]) = 1

\* a ray along the y axis (dir.x = 0) that has walked through three cells or more
C13_AxisRayWalked ==
    /\ probe.op = "castRayToWall"
    /\ probe.done
    /\ probe.dir.x = 0
    /\ Len(probe.hit.cells) >= 4
    /\ probe.hit.dist > 2 * 1000

\* C14: once the cleanup has run, no frame callback runs and no input listener
\* changes the state any more; at every moment at most one frame callback is
\* pending, and it is the one animationFrame names, which the cleanup cancels
C14_DetachStopsEverything ==
    /\ [](/\ Cardinality(host.pendingFrames) <= 1
          /\ host.pendingFrames \subseteq {animationFrame})
    /\ [][(host.context /\ host.listeners = {}) => UNCHANGED vars]_vars

\* detached after frames have run and a shot is in flight: the request the
\* last frame made is gone
C14_DetachedWhileRunning ==
    /\ host.context
    /\ host.listeners = {}
    /\ host.pendingFrames = {}
    /\ lastTime > 0
    /\ animationFrame = FrameHandle(lastTime)
    /\ projectiles # << >>

\* C15: when the canvas gives no drawing context, the condition is reported to
\* the user once and the engine stays inert: no listener registered, no frame
\* callback requested, at any later time
C15_MissingContextReported ==
    ~host.context =>
        /\ host.reports = 1
        /\ host.listeners = {}
        /\ host.pendingFrames = {}

\* C16: a map with a row shorter than the declared width, or a spawn point on
\* a wall cell, is refused when the world is built
C16_MalformedWorldRefused ==
    (probe.op = "loadWorld" /\ probe.done /\ Len(probe.map) > 0) =>
        LET map == probe.map
            short == \E y \in 1..Len(map) : Len(map[y]) < Len(map[1])
            walled == isWallIn(map, Floor(probe.spawn.x), Floor(probe.spawn.y))
        IN  (short \/ walled) => ~probe.world.built

\* C17: the dt of every tick is at most 50 ms; it is the difference of the
\* two consecutive timestamps when that difference is below 50 ms, and the
\* first tick uses 16 ms
C17_DtClamped ==
    [][lastTime' # lastTime =>
          /\ tickDt' <= 50
          /\ lastTime = 0 => tickDt' = 16
          /\ (lastTime # 0 /\ lastTime' - lastTime < 50) => tickDt' = lastTime' - lastTime
          /\ (lastTime # 0 /\ lastTime' - lastTime >= 50) => tickDt' = 50]_vars

\* a tick 49 ms after the one before, and an earlier one that was clamped
C17_ShortTickAfterLongOne ==
    /\ tickDt = 49
    /\ lastTime >= 120 + 49

\* C18: the health of every enemy is within [0, maxHealth] at all times
C18_EnemyHealthInRange ==
    \A i \in EnemyIds : enemyStates[i].health >= 0 /\ enemyStates[i].health <= enemyMaxHealth

\* an enemy has lost one point of health to a projectile that is still live
C18_Wounded ==
    \E i \in EnemyIds, k \in 1..Len(projectiles) :
        /\ projectiles[k].resolved
        /\ projectiles[k].hitEnemyIndex = i
        /\ enemyStates[i].health = enemyMaxHealth - 1
        /\ enemyStates[i].deadUntil <= clock

\* C19: there are never more than 10 live projectiles, and a shot fired while
\* 10 are live drops exactly one of them, the oldest, and nothing otherwise
C19_RingCapacity ==
    /\ [](Len(projectiles) <= maxProjectiles)
    /\ [][Fired =>
            LET gone == { k \in 1..Len(projectiles) :
                            \A j \in 1..Len(projectiles') : projectiles'[j].id # projectiles[k].id }
            IN  /\ Pushed.id = shots'
                /\ IF Len(projectiles) = maxProjectiles
                   THEN /\ Cardinality(gone) = 1
                        /\ \A k \in gone, m \in 1..Len(projectiles) :
                              /\ projectiles[k].startTime <= projectiles[m].startTime
                              /\ projectiles[k].id <= projectiles[m].id
                   ELSE gone = {}]_vars

\* ten projectiles are live after an eleventh shot or more, the first ones gone
C19_RingWrapped ==
    /\ Len(projectiles) = maxProjectiles
    /\ shots > maxProjectiles
    /\ projectiles[1].id = shots - maxProjectiles + 1
    /\ projectiles[maxProjectiles].id = shots

\* C20: a pointer-down while the pointer is not captured only requests the
\* capture and creates no projectile; a pointer-down while it is captured fires
\* one shot: it creates exactly one projectile
C20_PointerDown ==
    [][PointerDownStep => IF pointerLocked THEN OneShot ELSE OnlyRequestsCapture]_vars

\* C20 (amended): as above while the player is alive; a pointer-down while the
\* pointer is captured and the player is dead creates no projectile and
\* requests nothing
C20_PointerDownAmended ==
    [][PointerDownStep =>
          IF ~pointerLocked THEN OnlyRequestsCapture
          ELSE IF playerDeadUntil > clock'
          THEN UNCHANGED << projectiles, shots, pointerLocked, host >>
          ELSE OneShot /\ UNCHANGED host]_vars

\* the player has died of a contact hit, and a pointer-down since the last
\* frame, with the pointer captured, has left the one projectile fired before
C20_ClickedWhileDead ==
    /\ pointerLocked
    /\ playerDeadUntil > clock
    /\ clock = lastTime + ClickLag
    /\ shots = 1
    /\ Len(projectiles) = 1

\* C21: whenever an alive enemy is updated while the player is nearer than
\* the detection range with a clear line of sight, its chaseUntil is the
\* frame's timestamp + 1700 ms at the end of the update, at every distance
C21_SightStartsChase ==
    [][\A i \in EnemyIds :
          (Updated(i) /\ InSight(i) /\ Hits(i) = 0) =>
              enemyStates'[i].chaseUntil = lastTime' + enemyForgetMs]_vars

C23_PlayerCentreInPassableCell ==
    ~isWall(Floor(player.pos.x), Floor(player.pos.y))

\* with the strafe key held the player has slid north along the east wall of
\* the spawn corner: the eastward part of each step was refused, its edge is
\* within 0.01 cell of the wall
C23_SlidAlongWall ==
    /\ keys = { "d" }
    /\ lastTime > 0
    /\ player.pos.x = SPAWN.x
    /\ player.pos.y < SPAWN.y
    /\ isWall(Floor(player.pos.x + radius + 1), Floor(player.pos.y))

\* C24: the square of half-width 0.18 around every enemy lies entirely in
\* passable cells, through patrol, chase, knockback, death and respawn
C24_EnemiesClearOfWalls ==
    \A i \in EnemyIds :
        \A sx \in { -1, 1 }, sy \in { -1, 1 } :
            ~isWall(Floor(enemyStates[i].pos.x + sx * enemyRadius),
                    Floor(enemyStates[i].pos.y + sy * enemyRadius))

\* enemy 3, chasing a player it no longer sees round the corner of the east
\* corridor, is held by the wall north of it: a chase step further north would
\* put its north-east corner in the wall
C24_ChaserHeldByWall ==
    /\ lastTime > 0
    /\ enemyStates[3].chaseUntil > lastTime
    /\ enemyStates[3].pos.y > player.pos.y
    /\ isWall(Floor(enemyStates[3].pos.x + enemyRadius),
              Floor(enemyStates[3].pos.y - enemyRadius - 6))

\* C25: an update of an enemy whose hitStunUntil is in the future leaves its
\* position, patrolT and patrolDir unchanged; a hit the enemy survives sets
\* chaseUntil to now + 1700 ms, wherever the player is
C25_StunSuspendsMovement ==
    [][\A i \in EnemyIds :
          /\ (Updated(i) /\ enemyStates[i].hitStunUntil > lastTime' /\ Hits(i) = 0) =>
                 /\ enemyStates'[i].pos = enemyStates[i].pos
                 /\ enemyStates'[i].patrolT = enemyStates[i].patrolT
                 /\ enemyStates'[i].patrolDir = enemyStates[i].patrolDir
          /\ (/\ Hits(i) >= 1
              /\ enemyStates[i].deadUntil <= clock'
              /\ Hits(i) < enemyStates[i].health) =>
                 enemyStates'[i].chaseUntil = clock' + enemyForgetMs]_vars

\* enemy 3, hit from beyond the detection range, has been updated while in
\* hit-stun and holds the chase timer of the hit
C25_StunnedOutOfRange ==
    /\ enemyStates[3].hitStunUntil > lastTime
    /\ lastTime > enemyStates[3].hitStunUntil - enemyHitStunMs
    /\ enemyStates[3].chaseUntil = enemyStates[3].hitStunUntil - enemyHitStunMs + enemyForgetMs
    /\ Hypot(player.pos.x - enemyStates[3].pos.x, player.pos.y - enemyStates[3].pos.y)
          > enemyDetectionRange

\* C26: an enemy that is updated without the player in sight and takes no hit
\* does not get its chaseUntil extended; in the first such update after
\* chaseUntil has elapsed it stops chasing (chaseUntil reset to 0) and patrolT
\* advances again by patrolDir * speed * dt, clamped to [0, 1]
C26_ChaseExpires ==
    [][\A i \in EnemyIds :
          (Updated(i) /\ ~InSight(i) /\ Hits(i) = 0) =>
              /\ enemyStates'[i].chaseUntil \in { enemyStates[i].chaseUntil, 0 }
              /\ (/\ enemyStates[i].chaseUntil > 0
                  /\ enemyStates[i].chaseUntil <= lastTime'
                  /\ enemyStates[i].hitStunUntil <= lastTime') =>
                     /\ enemyStates'[i].chaseUntil = 0
                     /\ enemyStates'[i].patrolT =
                           Max(0, Min(1000000, enemyStates[i].patrolT
                                 + enemyStates[i].patrolDir * ENEMIES[i].speed * tickDt' * 10))
                     /\ enemyStates'[i].patrolT # enemyStates[i].patrolT]_vars

\* enemy 3 chased a player hidden round the corner of the east corridor until
\* its chase timer ran out, and is back on patrol
C26_BackOnPatrol ==
    /\ player.pos.y < 400
    /\ lastTime >= 1200
    /\ enemyStates[3].chaseUntil = 0
    /\ enemyStates[3].patrolT # InitEnemy(3).patrolT
    /\ enemyStates[3].pos.y < 550

\* C27: an alive enemy loses one point of health per applied hit and stays
\* alive while fewer hits than its health are applied; the hit that exhausts
\* its health (the maxHealth-th since it spawned) makes it dead, with health
\* maxHealth again, patrolT 0, direction +1 and both timers 0; hits on a dead
\* enemy and steps without hits change neither its health nor its death
C27_DiesOnLastHit ==
    [][\A i \in EnemyIds :
          LET h == enemyStates[i].health
              n == Hits(i)
              alive == enemyStates[i].deadUntil <= clock'
          IN  /\ (alive /\ n < h) =>
                     /\ enemyStates'[i].health = h - n
                     /\ enemyStates'[i].deadUntil = enemyStates[i].deadUntil
              /\ (alive /\ n >= h) =>
                     /\ enemyStates'[i].deadUntil = clock' + enemyRespawnMs
                     /\ RespawnValues(enemyStates'[i], i)
              /\ ~alive =>
                     /\ enemyStates'[i].health = h
                     /\ enemyStates'[i].deadUntil = enemyStates[i].deadUntil
              /\ enemyStates'[i].health \in 1..enemyMaxHealth]_vars

\* an enemy was hit twice, in two different frames, and died of the second hit
C27_KilledBySecondHit ==
    \E i \in EnemyIds, k1, k2 \in 1..Len(projectiles) :
        /\ projectiles[k1].hitEnemyIndex = i
        /\ projectiles[k2].hitEnemyIndex = i
        /\ projectiles[k1].resolved
        /\ projectiles[k2].resolved
        /\ Len(applied[projectiles[k1].id]) = 1
        /\ Len(applied[projectiles[k2].id]) = 1
        /\ applied[projectiles[k1].id][1] < applied[projectiles[k2].id][1]
        /\ enemyStates[i].deadUntil = applied[projectiles[k2].id][1] + enemyRespawnMs
        /\ RespawnValues(enemyStates[i], i)

\* C28: knockback puts the enemy on the first of the points 0.42, 0.2772 and
\* 0.1386 cell away, along the direction from the projectile's start to the
\* enemy, whose four corners at half-width 0.18 are free of walls; when none
\* is, the enemy stays where it is
C28_KnockbackFirstFit ==
    (probe.op = "knockbackEnemy" /\ probe.done) =>
        LET d1 == Along(probe.pos, probe.from, 4200)
            d2 == Along(probe.pos, probe.from, 2772)
            d3 == Along(probe.pos, probe.from, 1386)
        IN  probe.out = IF SquareFree(d1.x, d1.y, 18) THEN d1
                        ELSE IF SquareFree(d2.x, d2.y, 18) THEN d2
                        ELSE IF SquareFree(d3.x, d3.y, 18) THEN d3
                        ELSE probe.pos

\* a knockback towards the west wall for which the full distance does not fit
\* and two thirds of it does
C28_SecondDistanceFits ==
    /\ probe.op = "knockbackEnemy"
    /\ probe.done
    /\ probe.from.x > probe.pos.x
    /\ LET d1 == Along(probe.pos, probe.from, 4200)
       IN  ~SquareFree(d1.x, d1.y, 18)
    /\ probe.out = Along(probe.pos, probe.from, 2772)
    /\ probe.out # probe.pos

\* C29: a call of resolvePlayerEnemyCollision changes the player's position
\* and nothing else, no enemy in particular; it moves the player along x only
\* to a place where the player's square of half-width 0.2 touches no wall
\* cell, and then along y likewise, so the square is free of walls wherever a
\* push has put the player
C29_PushOutKeepsClear ==
    [][PushStep =>
          /\ UNCHANGED << enemyStates, playerHealth, playerDeadUntil, projectiles >>
          /\ player'.angle = player.angle
          /\ (player'.pos.x # player.pos.x) => SquareFree(player'.pos.x, player.pos.y, 20)
          /\ (player'.pos.y # player.pos.y) => SquareFree(player'.pos.x, player'.pos.y, 20)
          /\ (player'.pos # player.pos) =>
                 /\ SquareFree(player'.pos.x, player'.pos.y, 20)
                 /\ Abs(player'.pos.x - player.pos.x) <= 40
                 /\ Abs(player'.pos.y - player.pos.y) <= 40]_vars

\* the call has left the player on the spawn point, in the corner, still
\* overlapping enemy 3 to its north-west: the walls refused both axes
C29_PushRefusedInCorner ==
    /\ probe.op = "resolvePlayerEnemyCollision"
    /\ probe.done
    /\ player.pos = [x |-> SPAWN.x, y |-> SPAWN.y]
    /\ enemyStates[3].pos # player.pos
    /\ Hypot(player.pos.x - enemyStates[3].pos.x, player.pos.y - enemyStates[3].pos.y) < 400

\* C30: the DDA loop of castRayToWall and of a column of the wall pass stops,
\* for every origin inside the map and every direction, after at most
\* mapWidth + mapHeight iterations, on the cell castRayToWall reports
C30_RayTraversalTerminates ==
    /\ <>(probe.hit)
    /\ [](Len(probe.s.cells) - 1 <= mapWidth + mapHeight)
    /\ [](probe.hit => probe.s = RayWalk(RayStart(probe.from, probe.dir), probe.dir))

\* a loop that has stopped after 9 iterations or more
C30_LongWalkStopped ==
    /\ probe.op = "dda"
    /\ probe.hit
    /\ Len(probe.s.cells) - 1 >= 9

\* C31: an enemy applies contact damage only 650 ms or more after its previous
\* application, and the applications of a frame lower the player's health by
\* exactly 14 each, floored at 0; nothing else lowers it
C31_ContactCooldown ==
    [][LET biters == { i \in EnemyIds : Damaged(i) }
       IN  /\ \A i \in biters : lastTime' - enemyStates[i].lastDamageAt >= 650
           /\ biters # {} =>
                  playerHealth' = Max(0, HealthAtUpdate - 14 * Cardinality(biters))
           /\ playerHealth' < playerHealth => biters # {}]_vars

\* enemy 3 has just applied contact damage for the second time
C31_BittenTwice ==
    /\ playerHealth = playerMaxHealth - 2 * enemyContactDamage
    /\ enemyStates[3].lastDamageAt = lastTime
    /\ lastTime >= 200 + enemyContactCooldownMs

\* C32: the player's health is within [0, 100], and it is 0 exactly when the
\* player's dead-until timestamp is not 0
C32_HealthAndDeathAgree ==
    /\ playerHealth \in 0..playerMaxHealth
    /\ (playerHealth = 0) <=> (playerDeadUntil # 0)

\* the frame just run has taken the player's last health
C32_JustDied ==
    /\ playerHealth = 0
    /\ lastTime > 0
    /\ playerDeadUntil = lastTime + 1300

\* the step is a frame earlier than the dead player's dead-until
FrameWhileDead == lastTime' # lastTime /\ playerDeadUntil > lastTime'

\* C33: a frame earlier than dead-until leaves the dead player as it is, and the
\* first frame at or after dead-until leaves the player reset: at the spawn
\* pose, with health 100 and dead-until 0
C33_ResetInFirstFrame ==
    [][/\ FrameWhileDead => (playerDeadUntil' = playerDeadUntil /\ playerHealth' = 0)
       /\ Respawns =>
              /\ playerDeadUntil' = 0
              /\ playerHealth' = playerMaxHealth
              /\ player' = [pos |-> [x |-> SPAWN.x, y |-> SPAWN.y], angle |-> SPAWN.angle]]_vars

\* C33 (amended): a frame earlier than dead-until leaves the dead player as it
\* is; the first frame at or after dead-until resets the player and then runs
\* the enemy update, so it leaves dead-until 0, the spawn facing, the player on
\* the spawn point unless an enemy within reach of it pushes the player off,
\* and health 100 less 14 for every enemy that applies contact damage in that
\* frame
C33_PlayerRespawns ==
    [][/\ FrameWhileDead =>
              /\ playerDeadUntil' = playerDeadUntil
              /\ playerHealth' = 0
              /\ player' = player
       /\ Respawns =>
              /\ playerDeadUntil' = 0
              /\ playerHealth' = playerMaxHealth
                                  - enemyContactDamage * Cardinality({ i \in EnemyIds : Damaged(i) })
              /\ player'.angle = SPAWN.angle
              /\ \/ player'.pos = [x |-> SPAWN.x, y |-> SPAWN.y]
                 \/ \E i \in EnemyIds :
                       Hypot(SPAWN.x - enemyStates'[i].pos.x, SPAWN.y - enemyStates'[i].pos.y) < 400]_vars

\* the player, killed in the frame at 200 ms by enemy 3, has been reset in the
\* frame at 1600 ms and hurt again by the enemy in that same frame
C33_Respawned ==
    /\ lastTime = 1600
    /\ playerDeadUntil = 0
    /\ playerHealth = playerMaxHealth - enemyContactDamage
    /\ enemyStates[3].lastDamageAt = lastTime
    /\ player.angle = SPAWN.angle

\* C34: while the player's dead-until is in the future a frame leaves the
\* player's pose as it is whatever keys are held, leaves the player's health,
\* and leaves every enemy that no projectile hits in that frame as it is; and
\* a pointer-down creates no projectile
C34_DeadPlayerFrozen ==
    [][/\ FrameWhileDead =>
              /\ player' = player
              /\ playerHealth' = playerHealth
              /\ \A i \in EnemyIds : Hits(i) = 0 => enemyStates'[i] = enemyStates[i]
       /\ (PointerDownStep /\ playerDeadUntil > clock') =>
              UNCHANGED << projectiles, shots >>]_vars

\* the player has been dead for two frames with the forward and the turn key
\* held, and a pointer-down has come since the last frame
C34_DeadWithKeysHeld ==
    /\ playerDeadUntil > clock
    /\ keys = { "w", "arrowleft" }
    /\ lastTime >= playerDeadUntil - 1300 + 100
    /\ clock > lastTime
    /\ pointerLocked

\* C35: an enemy whose dead-until is still ahead when a step ends keeps all
\* its fields through the step, is not the target of a projectile the step
\* fires, and applies no contact damage; and a frame with no key held in which
\* every enemy within a cell of the player is dead leaves the player's
\* position and health as they are
C35_DeadEnemyInert ==
    [][/\ \A i \in EnemyIds :
              enemyStates[i].deadUntil > clock' =>
                  /\ enemyStates'[i] = enemyStates[i]
                  /\ Fired => Pushed.hitEnemyIndex # i
                  /\ ~Damaged(i)
       /\ ( /\ lastTime' # lastTime
            /\ keys = {}
            /\ \A i \in EnemyIds :
                  enemyStates[i].deadUntil > clock' \/ EnemyDistance(i) >= 1000 )
          => /\ player'.pos = player.pos
             /\ playerHealth' = playerHealth]_vars

\* enemy 3 is dead on its base: three projectiles fired at it arrived in the
\* frame of its death, one more than its health; a fourth shot has been fired
\* since, and the player stands within the push-out distance of the base
\* after a frame with no key held
C35_StandingOnTheDead ==
    /\ enemyStates[3].deadUntil > clock
    /\ RespawnValues(enemyStates[3], 3)
    /\ \A id \in 1..3 : applied[id] = << enemyStates[3].deadUntil - enemyRespawnMs >>
    /\ shots = 4
    /\ EnemyDistance(3) < 10 * (radius + enemyRadius + 2)
    /\ keys = {}
    /\ lastTime = clock

C37_FailureDoesNotBlock ==
    probe.op = "blob" =>
        \A k \in 1..Len(probe.calls) :
            Settled(probe.calls[k]) => probe.calls[k].loads >= 1

\* C39: the step in which an updateSquare is fulfilled leaves the stored
\* colour of every other square as it was
C39_UpdateKeepsOtherSquares ==
    [][probe.op = "blob" =>
          \A k \in 1..Len(probe.calls) :
              ( /\ probe.calls[k].req.kind = "updateSquare"
                /\ probe.calls[k].state # "fulfilled"
                /\ probe'.calls[k].state = "fulfilled" )
              => \A key \in GridKeys \ { probe.calls[k].req.key } :
                     probe'.grid[key] = probe.grid[key]]_vars

\* C38: a square that is loading (it was clicked) is eventually not loading
\* with its colour sent to the server
C38_ClickedSquareSettles ==
    \A key \in GridKeys :
        (probe.op = "grid" /\ probe.squares[key].isLoading)
            ~> (~probe.squares[key].isLoading /\ key \notin probe.unsent)

====
